---- MODULE Spec2Model ----
(***************************************************************************)
(* ChessMoveAnalyzer: board representation, FEN codec, make-move, attack   *)
(* detection and move generation, modelled from the C++ sources.           *)
(*                                                                         *)
(* A Bitboard (uint64_t) is modelled as the set of its set bits, a subset  *)
(* of 0..63; the uint8_t castling mask as the set of its flag bits.        *)
(* A std::string is a sequence of one-character strings.                   *)
(***************************************************************************)
EXTENDS Integers, Sequences, FiniteSets, TLC

\* ------------------------------------------------------------------------
\* types.h
\* ------------------------------------------------------------------------
NO_SQUARE == -1
A1 == 0
B1 == 1
C1 == 2
D1 == 3
E1 == 4
F1 == 5
G1 == 6
H1 == 7
A8 == 56
B8 == 57
C8 == 58
D8 == 59
E8 == 60
F8 == 61
G8 == 62
H8 == 63

WHITE == 0
BLACK == 1

PAWN == 0
KNIGHT == 1
BISHOP == 2
ROOK == 3
QUEEN == 4
KING == 5

NO_PIECE == 0
W_PAWN == 1
B_PAWN == 9

WHITE_OO == 1
WHITE_OOO == 2
BLACK_OO == 4
BLACK_OOO == 8
NO_CASTLING == {}

NORMAL == 0
PROMOTION == 1
EN_PASSANT == 2
CASTLING == 3

PROMOTE_TO_QUEEN == 0
PROMOTE_TO_ROOK == 1
PROMOTE_TO_BISHOP == 2
PROMOTE_TO_KNIGHT == 3

Squares == 0..63
Colors == {WHITE, BLACK}
PieceTypes == PAWN..KING

\* Color operator~ : c ^ 1
Opp(c) == (c + 1) % 2

makeSquare(file, rank) == rank * 8 + file
fileOf(sq) == sq % 8
rankOf(sq) == sq \div 8

\* squareBB(sq) = 1ULL << sq.  A shift count outside 0..63 sets no bit of the
\* twelve boards in this model.
squareBB(sq) == IF sq \in Squares THEN {sq} ELSE {}

\* __builtin_ctzll on a non-zero bitboard: index of the lowest set bit.
lsb(b) == CHOOSE x \in b : \A y \in b : x <= y

\* The squares of b in the order in which a popLsb loop visits them.
RECURSIVE popLsbOrder(_)
popLsbOrder(b) ==
    IF b = {} THEN <<>>
    ELSE LET sq == lsb(b) IN <<sq>> \o popLsbOrder(b \ {sq})

popcount(b) == Cardinality(b)

\* (p - 1) % 6 on int, converted to the uint8_t enum: C++ % truncates towards
\* zero, so NO_PIECE gives -1, i.e. 255 as PieceType.
typeOf(p) == IF p = 0 THEN 255 ELSE (p - 1) % 6

colorOf(p) == IF p < B_PAWN THEN WHITE ELSE BLACK

makePiece(c, pt) == (IF c = WHITE THEN W_PAWN ELSE B_PAWN) + pt

\* ------------------------------------------------------------------------
\* move.h : Move as its four decoded fields (from, to, promotion, type)
\* ------------------------------------------------------------------------
Move(from, to, type, promotion) ==
    [from |-> from, to |-> to, type |-> type, promotion |-> promotion]

NormalMove(from, to) == Move(from, to, NORMAL, PROMOTE_TO_QUEEN)

NULL_MOVE == Move(0, 0, NORMAL, PROMOTE_TO_QUEEN)

isNull(m) == m = NULL_MOVE

isCastling(m) == m.type = CASTLING
isEnPassant(m) == m.type = EN_PASSANT
isPromotion(m) == m.type = PROMOTION

\* ------------------------------------------------------------------------
\* bitboard_attacks.h / bitboard_attacks.cpp
\* ------------------------------------------------------------------------
FILE_A == {sq \in Squares : fileOf(sq) = 0}
FILE_H == {sq \in Squares : fileOf(sq) = 7}

NORTH == 8
SOUTH == -8
EAST == 1
WEST == -1
NORTH_EAST == 9
NORTH_WEST == 7
SOUTH_EAST == -7
SOUTH_WEST == -9

\* b << n or b >> n on 64 bits: bits shifted out are lost.
ShiftBits(b, n) == {sq + n : sq \in b} \cap Squares

\* shift without the file masks: a bit on the a or h file wraps to the next
\* rank.
shiftWrapsFiles(dir, b) ==
    IF dir \in {NORTH, SOUTH, EAST, WEST, NORTH_EAST, NORTH_WEST,
                SOUTH_EAST, SOUTH_WEST}
    THEN ShiftBits(b, dir)
    ELSE {}

\* template<int Direction> shift(b)
shift(dir, b) ==
    CASE dir = NORTH      -> ShiftBits(b, 8)
      [] dir = SOUTH      -> ShiftBits(b, -8)
      [] dir = EAST       -> ShiftBits(b \ FILE_H, 1)
      [] dir = WEST       -> ShiftBits(b \ FILE_A, -1)
      [] dir = NORTH_EAST -> ShiftBits(b \ FILE_H, 9)
      [] dir = NORTH_WEST -> ShiftBits(b \ FILE_A, 7)
      [] dir = SOUTH_EAST -> ShiftBits(b \ FILE_H, -7)
      [] dir = SOUTH_WEST -> ShiftBits(b \ FILE_A, -9)
      [] OTHER            -> {}

OnBoard(rank, file) == rank >= 0 /\ rank < 8 /\ file >= 0 /\ file < 8

\* The eight (rank, file) offsets of a knight, as listed in the source.
knightMoves ==
    << <<-2, -1>>, <<-2, 1>>, <<-1, -2>>, <<-1, 2>>,
       <<1, -2>>, <<1, 2>>, <<2, -1>>, <<2, 1>> >>

\* The eight (rank, file) offsets of a king.
kingMoves ==
    << <<-1, -1>>, <<-1, 0>>, <<-1, 1>>, <<0, -1>>,
       <<0, 1>>, <<1, -1>>, <<1, 0>>, <<1, 1>> >>

\* Table filled by a loop over the offsets, keeping the targets on the board.
OffsetTable(offsets) ==
    [sq \in Squares |->
        { makeSquare(fileOf(sq) + offsets[i][2], rankOf(sq) + offsets[i][1]) :
            i \in { j \in DOMAIN offsets :
                      OnBoard(rankOf(sq) + offsets[j][1], fileOf(sq) + offsets[j][2]) } }]

\* AttackTableInit::initKnightAttacks / initKingAttacks
knightAttacksTable == OffsetTable(knightMoves)
kingAttacksTable == OffsetTable(kingMoves)

knightAttacksBB(sq) == knightAttacksTable[sq]
kingAttacksBB(sq) == kingAttacksTable[sq]

\* One ray-scan loop: from (r, f) step (dr, df), set bits until the edge or the
\* first occupied square, inclusive.
RECURSIVE RayScan(_, _, _, _, _)
RayScan(r, f, dr, df, occupied) ==
    IF ~OnBoard(r, f) THEN {}
    ELSE LET s == makeSquare(f, r) IN
         IF s \in occupied THEN {s}
         ELSE {s} \cup RayScan(r + dr, f + df, dr, df, occupied)

bishopAttacksBB(sq, occupied) ==
    LET rank == rankOf(sq)
        file == fileOf(sq)
    IN  RayScan(rank + 1, file + 1, 1, 1, occupied)
        \cup RayScan(rank - 1, file + 1, -1, 1, occupied)
        \cup RayScan(rank - 1, file - 1, -1, -1, occupied)
        \cup RayScan(rank + 1, file - 1, 1, -1, occupied)

rookAttacksBB(sq, occupied) ==
    LET rank == rankOf(sq)
        file == fileOf(sq)
    IN  RayScan(rank + 1, file, 1, 0, occupied)
        \cup RayScan(rank - 1, file, -1, 0, occupied)
        \cup RayScan(rank, file + 1, 0, 1, occupied)
        \cup RayScan(rank, file - 1, 0, -1, occupied)

\* ------------------------------------------------------------------------
\* position.h / position.cpp : a Position is a record of its fields
\* ------------------------------------------------------------------------
EmptyBoards == [c \in Colors |-> [pt \in PieceTypes |-> {}]]

getPieceBitboard(p, piece, color) == p.pieceBitboards[color][piece]

getColorBitboard(p, color) ==
    UNION { p.pieceBitboards[color][pt] : pt \in PieceTypes }

getOccupiedBitboard(p) == getColorBitboard(p, WHITE) \cup getColorBitboard(p, BLACK)

\* First board, white before black and pawn to king, that has the square's bit.
getPieceAt(p, square) ==
    LET hits == { c * 6 + pt : c \in Colors, pt \in PieceTypes }
        found == { h \in hits : square \in p.pieceBitboards[h \div 6][h % 6] }
    IN  IF found = {} THEN NO_PIECE
        ELSE LET h == lsb(found) IN makePiece(h \div 6, h % 6)

\* pieceBitboards[color][piece] |= squareBB(square).  An index outside the
\* array (typeOf(NO_PIECE)) writes outside the twelve boards.
putPiece(boards, square, piece, color) ==
    IF piece \in PieceTypes
    THEN [boards EXCEPT ![color][piece] = @ \cup squareBB(square)]
    ELSE boards

\* clearSquare without its loops: no board loses the square's bit.
clearSquareLeavesBit(boards, square) == boards

clearSquare(boards, square) ==
    [c \in Colors |-> [pt \in PieceTypes |-> boards[c][pt] \ squareBB(square)]]

Abs(x) == IF x < 0 THEN -x ELSE x

\* ------------------------------------------------------------------------
\* position_moves.cpp
\* ------------------------------------------------------------------------
isSquareAttacked(p, square, byColor) ==
    LET occupied == getOccupiedBitboard(p)
        enemyPawns == getPieceBitboard(p, PAWN, byColor)
        pawnSources ==
            IF byColor = WHITE
            THEN shift(SOUTH_WEST, squareBB(square)) \cup shift(SOUTH_EAST, squareBB(square))
            ELSE shift(NORTH_WEST, squareBB(square)) \cup shift(NORTH_EAST, squareBB(square))
    IN  \/ pawnSources \cap enemyPawns # {}
        \/ knightAttacksBB(square) \cap getPieceBitboard(p, KNIGHT, byColor) # {}
        \/ bishopAttacksBB(square, occupied)
             \cap (getPieceBitboard(p, BISHOP, byColor) \cup getPieceBitboard(p, QUEEN, byColor)) # {}
        \/ rookAttacksBB(square, occupied)
             \cap (getPieceBitboard(p, ROOK, byColor) \cup getPieceBitboard(p, QUEEN, byColor)) # {}
        \/ kingAttacksBB(square) \cap getPieceBitboard(p, KING, byColor) # {}

\* isInCheck() takes lsb of the king board of the side to move.  With no king
\* on the board that is __builtin_ctzll(0), undefined: the call may answer
\* either way.  The set of answers the call can give.
isInCheck(p) ==
    LET kings == getPieceBitboard(p, KING, p.sideToMove) IN
    IF kings = {} THEN BOOLEAN
    ELSE { isSquareAttacked(p, lsb(kings), Opp(p.sideToMove)) }

\* makeMove with a queen put for every promotion.
promotedPieceAlwaysQueen(m) == QUEEN

\* The piece a promotion move places (switch on promotionType()).
promotedPiece(m) ==
    CASE m.promotion = PROMOTE_TO_QUEEN  -> QUEEN
      [] m.promotion = PROMOTE_TO_ROOK   -> ROOK
      [] m.promotion = PROMOTE_TO_BISHOP -> BISHOP
      [] m.promotion = PROMOTE_TO_KNIGHT -> KNIGHT

\* The boards of newPos after the "clear the source square", "handle captures"
\* and "handle special moves" blocks of makeMove.
makeMoveBoards(p, m) ==
    LET from == m.from
        to == m.to
        capturedPiece == getPieceAt(p, to)
        pieceType == typeOf(getPieceAt(p, from))
        us == p.sideToMove
        b1 == clearSquare(p.pieceBitboards, from)
        b2 == IF capturedPiece # NO_PIECE THEN clearSquare(b1, to) ELSE b1
    IN  IF isCastling(m) THEN
            LET b3 == putPiece(b2, to, KING, us) IN
            IF to > from
            THEN putPiece(clearSquare(b3, IF us = WHITE THEN H1 ELSE H8),
                          IF us = WHITE THEN F1 ELSE F8, ROOK, us)
            ELSE putPiece(clearSquare(b3, IF us = WHITE THEN A1 ELSE A8),
                          IF us = WHITE THEN D1 ELSE D8, ROOK, us)
        ELSE IF isEnPassant(m) THEN
            clearSquare(putPiece(b2, to, PAWN, us),
                        IF us = WHITE THEN to - 8 ELSE to + 8)
        ELSE IF isPromotion(m) THEN
            putPiece(b2, to, promotedPiece(m), us)
        ELSE
            putPiece(b2, to, pieceType, us)

\* newPos.halfmoveClock after makeMove.
makeMoveHalfmoveClock(p, m) ==
    LET capturedPiece == getPieceAt(p, m.to)
        pieceType == typeOf(getPieceAt(p, m.from))
        h1 == IF capturedPiece # NO_PIECE THEN 0 ELSE p.halfmoveClock + 1
    IN  IF isCastling(m) THEN h1
        ELSE IF isEnPassant(m) THEN 0
        ELSE IF isPromotion(m) THEN 0
        ELSE IF pieceType = PAWN THEN 0 ELSE h1

\* newPos.castlingRights after makeMove ("&= ~flag" removes the flag).
makeMoveCastlingRights(p, m) ==
    LET from == m.from
        to == m.to
        pieceType == typeOf(getPieceAt(p, from))
        us == p.sideToMove
        r1 == IF pieceType = KING THEN
                  IF us = WHITE THEN p.castlingRights \ {WHITE_OO, WHITE_OOO}
                  ELSE p.castlingRights \ {BLACK_OO, BLACK_OOO}
              ELSE IF pieceType = ROOK THEN
                  IF from = A1 THEN p.castlingRights \ {WHITE_OOO}
                  ELSE IF from = H1 THEN p.castlingRights \ {WHITE_OO}
                  ELSE IF from = A8 THEN p.castlingRights \ {BLACK_OOO}
                  ELSE IF from = H8 THEN p.castlingRights \ {BLACK_OO}
                  ELSE p.castlingRights
              ELSE p.castlingRights
    IN  IF to = A1 THEN r1 \ {WHITE_OOO}
        ELSE IF to = H1 THEN r1 \ {WHITE_OO}
        ELSE IF to = A8 THEN r1 \ {BLACK_OOO}
        ELSE IF to = H8 THEN r1 \ {BLACK_OO}
        ELSE r1

\* newPos.enPassantSquare after makeMove.
makeMoveEnPassantSquare(p, m) ==
    LET pieceType == typeOf(getPieceAt(p, m.from)) IN
    IF pieceType = PAWN /\ Abs(m.to - m.from) = 16
    THEN (IF p.sideToMove = WHITE THEN m.from + 8 ELSE m.from - 8)
    ELSE NO_SQUARE

\* makeMove without the switch of the side to move.
makeMoveSameSide(p) == p.sideToMove

\* newPos.sideToMove = them, with them = ~us.
makeMoveSideToMove(p) == Opp(p.sideToMove)

\* updateHash: the stub increments the hash.
updateHash(hash) == hash + 1

\* Position::makeMove: the returned newPos.
makeMove(p, m) ==
    [pieceBitboards |-> makeMoveBoards(p, m),
     sideToMove     |-> makeMoveSideToMove(p),
     castlingRights |-> makeMoveCastlingRights(p, m),
     enPassantSquare |-> makeMoveEnPassantSquare(p, m),
     halfmoveClock  |-> makeMoveHalfmoveClock(p, m),
     fullmoveNumber |-> IF p.sideToMove = BLACK THEN p.fullmoveNumber + 1
                        ELSE p.fullmoveNumber,
     zobristHash    |-> updateHash(p.zobristHash)]

\* makeMove as a method that works on *this in place of the copy.
makeMoveInPlace(p, m) == makeMove(p, m)

\* Position::makeMove is a const method that works on the copy newPos: the
\* receiver *this as the call leaves it.
makeMoveReceiver(p, m) == p

\* ------------------------------------------------------------------------
\* move_generator.cpp
\* ------------------------------------------------------------------------
\* AttackTableInitializer::initializePawnAttacks: sqBB << 7, << 9, >> 9, >> 7
\* guarded by the file only.
pawnAttacks ==
    [c \in Colors |-> [sq \in Squares |->
        IF c = WHITE
        THEN (IF fileOf(sq) > 0 THEN ShiftBits({sq}, 7) ELSE {})
             \cup (IF fileOf(sq) < 7 THEN ShiftBits({sq}, 9) ELSE {})
        ELSE (IF fileOf(sq) > 0 THEN ShiftBits({sq}, -9) ELSE {})
             \cup (IF fileOf(sq) < 7 THEN ShiftBits({sq}, -7) ELSE {})]]

knightAttacks == OffsetTable(knightMoves)
kingAttacks == OffsetTable(kingMoves)

getRookAttacks(sq, occupied) ==
    LET rank == rankOf(sq)
        file == fileOf(sq)
    IN  RayScan(rank + 1, file, 1, 0, occupied)
        \cup RayScan(rank - 1, file, -1, 0, occupied)
        \cup RayScan(rank, file + 1, 0, 1, occupied)
        \cup RayScan(rank, file - 1, 0, -1, occupied)

getBishopAttacks(sq, occupied) ==
    LET rank == rankOf(sq)
        file == fileOf(sq)
    IN  RayScan(rank + 1, file + 1, 1, 1, occupied)
        \cup RayScan(rank - 1, file + 1, -1, 1, occupied)
        \cup RayScan(rank - 1, file - 1, -1, -1, occupied)
        \cup RayScan(rank + 1, file - 1, 1, -1, occupied)

\* The moves a loop "while (b) { sq = popLsb(b); ... }" appends, Body(sq) being
\* what one iteration appends.
ForEachBit(squares, Body(_)) ==
    LET acc[i \in 0..Len(squares)] ==
            IF i = 0 THEN <<>> ELSE acc[i - 1] \o Body(squares[i])
    IN  acc[Len(squares)]

\* The four promotion moves of one push or capture, in the source's order.
PromotionMoves(from, to) ==
    << Move(from, to, PROMOTION, PROMOTE_TO_QUEEN),
       Move(from, to, PROMOTION, PROMOTE_TO_ROOK),
       Move(from, to, PROMOTION, PROMOTE_TO_BISHOP),
       Move(from, to, PROMOTION, PROMOTE_TO_KNIGHT) >>

RANK_2 == {sq \in Squares : rankOf(sq) = 1}
RANK_7 == {sq \in Squares : rankOf(sq) = 6}

\* What generatePawnMoves appends for the pawn on `from`.
PawnMovesFrom(pos, us, theirPieces, occupied, from) ==
    LET pawnPush == IF us = WHITE THEN 8 ELSE -8
        doublePush == IF us = WHITE THEN 16 ELSE -16
        rank2 == IF us = WHITE THEN RANK_2 ELSE RANK_7
        rank7 == IF us = WHITE THEN RANK_7 ELSE RANK_2
        to == from + pawnPush
        pushes ==
            IF to \notin occupied THEN
                IF from \in rank7 THEN PromotionMoves(from, to)
                ELSE <<NormalMove(from, to)>>
                     \o (IF from \in rank2 /\ (from + doublePush) \notin occupied
                         THEN <<NormalMove(from, from + doublePush)>> ELSE <<>>)
            ELSE <<>>
        CaptureOn(captureSq) ==
            IF from \in rank7 THEN PromotionMoves(from, captureSq)
            ELSE <<NormalMove(from, captureSq)>>
        captures ==
            ForEachBit(popLsbOrder(pawnAttacks[us][from] \cap theirPieces), CaptureOn)
        epSquare == pos.enPassantSquare
        enPassant ==
            IF epSquare # NO_SQUARE /\ epSquare \in pawnAttacks[us][from]
            THEN <<Move(from, epSquare, EN_PASSANT, PROMOTE_TO_QUEEN)>> ELSE <<>>
    IN  pushes \o captures \o enPassant

generatePawnMoves(pos, us, ourPieces, theirPieces, occupied) ==
    LET Body(from) == PawnMovesFrom(pos, us, theirPieces, occupied, from)
    IN  ForEachBit(popLsbOrder(getPieceBitboard(pos, PAWN, us)), Body)

\* template<PieceType PT> getAttacks(sq, occupied)
getAttacks(PT, sq, occupied) ==
    CASE PT = KNIGHT -> knightAttacks[sq]
      [] PT = BISHOP -> getBishopAttacks(sq, occupied)
      [] PT = ROOK   -> getRookAttacks(sq, occupied)
      [] PT = QUEEN  -> getBishopAttacks(sq, occupied) \cup getRookAttacks(sq, occupied)
      [] OTHER       -> {}

\* template<PieceType PT> generatePieceMoves
generatePieceMoves(PT, pos, us, ourPieces, occupied) ==
    LET Body(from) ==
            LET To(to) == <<NormalMove(from, to)>>
            IN  ForEachBit(popLsbOrder(getAttacks(PT, from, occupied) \ ourPieces), To)
    IN  ForEachBit(popLsbOrder(getPieceBitboard(pos, PT, us)), Body)

\* The values the undefined reads of a board with no king of the side to move
\* resolve to: ctz0 for lsb(0) in generateKingMoves, chk0 for pos.isInCheck()
\* in generateCastlingMoves.  With a king on the board neither is read.
\* ctz0 ranges over the squares of the board; a build may also read 64 and
\* index kingAttacks behind its end, which no value here stands for.
UndefinedReads(pos) ==
    IF getPieceBitboard(pos, KING, pos.sideToMove) = {}
    THEN [ctz0 : Squares, chk0 : BOOLEAN]
    ELSE {[ctz0 |-> 0, chk0 |-> FALSE]}

generateKingMoves(pos, us, ourPieces, occupied, ub) ==
    LET kings == getPieceBitboard(pos, KING, us)
        kingSquare == IF kings = {} THEN ub.ctz0 ELSE lsb(kings)
        To(to) == <<NormalMove(kingSquare, to)>>
    IN  ForEachBit(popLsbOrder(kingAttacks[kingSquare] \ ourPieces), To)

generateCastlingMoves(pos, us, occupied, ub) ==
    LET inCheck == IF getPieceBitboard(pos, KING, pos.sideToMove) = {}
                   THEN ub.chk0
                   ELSE TRUE \in isInCheck(pos)
        rights == pos.castlingRights
    IN  IF inCheck THEN <<>>
        ELSE IF us = WHITE THEN
            (IF /\ WHITE_OO \in rights
                /\ occupied \cap {F1, G1} = {}
                /\ ~isSquareAttacked(pos, F1, BLACK)
                /\ ~isSquareAttacked(pos, G1, BLACK)
             THEN <<Move(E1, G1, CASTLING, PROMOTE_TO_QUEEN)>> ELSE <<>>)
            \o
            (IF /\ WHITE_OOO \in rights
                /\ occupied \cap {B1, C1, D1} = {}
                /\ ~isSquareAttacked(pos, C1, BLACK)
                /\ ~isSquareAttacked(pos, D1, BLACK)
             THEN <<Move(E1, C1, CASTLING, PROMOTE_TO_QUEEN)>> ELSE <<>>)
        ELSE
            (IF /\ BLACK_OO \in rights
                /\ occupied \cap {F8, G8} = {}
                /\ ~isSquareAttacked(pos, F8, WHITE)
                /\ ~isSquareAttacked(pos, G8, WHITE)
             THEN <<Move(E8, G8, CASTLING, PROMOTE_TO_QUEEN)>> ELSE <<>>)
            \o
            (IF /\ BLACK_OOO \in rights
                /\ occupied \cap {B8, C8, D8} = {}
                /\ ~isSquareAttacked(pos, C8, WHITE)
                /\ ~isSquareAttacked(pos, D8, WHITE)
             THEN <<Move(E8, C8, CASTLING, PROMOTE_TO_QUEEN)>> ELSE <<>>)

\* MoveGenerator::Impl::generateAllMoves = generatePseudoLegalMoves
generateAllMoves(pos, ub) ==
    LET us == pos.sideToMove
        ourPieces == getColorBitboard(pos, us)
        theirPieces == getColorBitboard(pos, Opp(us))
        occupied == ourPieces \cup theirPieces
    IN  generatePawnMoves(pos, us, ourPieces, theirPieces, occupied)
        \o generatePieceMoves(KNIGHT, pos, us, ourPieces, occupied)
        \o generatePieceMoves(BISHOP, pos, us, ourPieces, occupied)
        \o generatePieceMoves(ROOK, pos, us, ourPieces, occupied)
        \o generatePieceMoves(QUEEN, pos, us, ourPieces, occupied)
        \o generateKingMoves(pos, us, ourPieces, occupied, ub)
        \o generateCastlingMoves(pos, us, occupied, ub)

\* The legality test of generateLegalMoves: keep the move iff
\* !newPos.isInCheck().  Where that call is undefined the move may be kept.
KeepsMove(position, move) == FALSE \in isInCheck(makeMove(position, move))

\* MoveGenerator::generateLegalMoves (with every move kept whose test is
\* undefined; any sublist that drops some of those is a possible result too).
generateLegalMoves(position, ub) ==
    LET Keep(move) == KeepsMove(position, move)
    IN  SelectSeq(generateAllMoves(position, ub), Keep)

\* ------------------------------------------------------------------------
\* position.cpp : FEN codec.  A std::string is a sequence of characters.
\* ------------------------------------------------------------------------
STARTING_FEN ==
    << "r", "n", "b", "q", "k", "b", "n", "r", "/", "p", "p", "p", "p", "p",
       "p", "p", "p", "/", "8", "/", "8", "/", "8", "/", "8", "/", "P", "P",
       "P", "P", "P", "P", "P", "P", "/", "R", "N", "B", "Q", "K", "B", "N",
       "R", " ", "w", " ", "K", "Q", "k", "q", " ", "-", " ", "0", " ", "1" >>

DigitChars == << "0", "1", "2", "3", "4", "5", "6", "7", "8", "9" >>
UpperChars ==
    << "A", "B", "C", "D", "E", "F", "G", "H", "I", "J", "K", "L", "M",
       "N", "O", "P", "Q", "R", "S", "T", "U", "V", "W", "X", "Y", "Z" >>
LowerChars ==
    << "a", "b", "c", "d", "e", "f", "g", "h", "i", "j", "k", "l", "m",
       "n", "o", "p", "q", "r", "s", "t", "u", "v", "w", "x", "y", "z" >>

Range(s) == { s[i] : i \in DOMAIN s }
IndexOf(s, ch) == CHOOSE i \in DOMAIN s : s[i] = ch

isdigit(ch) == ch \in Range(DigitChars)
isupper(ch) == ch \in Range(UpperChars)
tolower(ch) == IF isupper(ch) THEN LowerChars[IndexOf(UpperChars, ch)] ELSE ch
toupper(ch) ==
    IF ch \in Range(LowerChars) THEN UpperChars[IndexOf(LowerChars, ch)] ELSE ch
\* ch - '0' for a digit
DigitValue(ch) == IndexOf(DigitChars, ch) - 1

\* operator<< of a non-negative int: its decimal digits.
RECURSIVE IntToString(_)
IntToString(n) ==
    IF n < 10 THEN <<DigitChars[n + 1]>>
    ELSE IntToString(n \div 10) \o <<DigitChars[(n % 10) + 1]>>

\* operator>> into an int: the value of the leading decimal digits of the
\* token (0 when there is none).
RECURSIVE StringToIntLoop(_, _, _)
StringToIntLoop(token, i, v) ==
    IF i > Len(token) \/ ~isdigit(token[i]) THEN v
    ELSE StringToIntLoop(token, i + 1, v * 10 + DigitValue(token[i]))

StringToInt(token) == StringToIntLoop(token, 1, 0)

\* The whitespace-separated tokens that "ss >> a >> b ..." extracts.  The scan
\* state st is the index i of the next character, the tokens done and the
\* token being read.
RECURSIVE TokensLoop(_, _)
TokensLoop(str, st) ==
    IF st.i > Len(str) THEN
        (IF st.cur = <<>> THEN st.done ELSE Append(st.done, st.cur))
    ELSE IF str[st.i] = " " THEN
        TokensLoop(str, [i |-> st.i + 1,
                         done |-> IF st.cur = <<>> THEN st.done
                                  ELSE Append(st.done, st.cur),
                         cur |-> <<>>])
    ELSE
        TokensLoop(str, [i |-> st.i + 1, done |-> st.done,
                         cur |-> Append(st.cur, str[st.i])])

Tokens(str) == TokensLoop(str, [i |-> 1, done |-> <<>>, cur |-> <<>>])

\* The i-th extracted token; an extraction past the end leaves the string empty.
Token(toks, i) == IF i <= Len(toks) THEN toks[i] ELSE <<>>

\* types.h
squareToString(sq) ==
    IF sq = NO_SQUARE THEN <<"-">>
    ELSE << LowerChars[fileOf(sq) + 1], DigitChars[rankOf(sq) + 2] >>

stringToSquare(str) ==
    IF Len(str) # 2 THEN NO_SQUARE
    ELSE IF str[1] \notin Range(SubSeq(LowerChars, 1, 8))
            \/ str[2] \notin Range(SubSeq(DigitChars, 2, 9)) THEN NO_SQUARE
    ELSE makeSquare(IndexOf(LowerChars, str[1]) - 1, DigitValue(str[2]) - 1)

\* switch (ch) of the board loop: the piece type of a lower-case letter, or
\* NO_PIECE_TYPE (6) for the default branch.
NO_PIECE_TYPE == 6
PieceTypeOfChar(ch) ==
    CASE ch = "p" -> PAWN
      [] ch = "n" -> KNIGHT
      [] ch = "b" -> BISHOP
      [] ch = "r" -> ROOK
      [] ch = "q" -> QUEEN
      [] ch = "k" -> KING
      [] OTHER    -> NO_PIECE_TYPE

\* The board loop of initializeFromFEN.  The loop state st is the index i of
\* the next character, the boards and the running square sq.
RECURSIVE ParseBoardLoop(_, _)
ParseBoardLoop(board, st) ==
    IF st.i > Len(board) THEN st.boards
    ELSE LET ch == board[st.i] IN
         IF ch = "/" THEN
             ParseBoardLoop(board, [st EXCEPT !.i = @ + 1, !.sq = @ - 16])
         ELSE IF isdigit(ch) THEN
             ParseBoardLoop(board, [st EXCEPT !.i = @ + 1, !.sq = @ + DigitValue(ch)])
         ELSE LET c == IF isupper(ch) THEN WHITE ELSE BLACK
                  pt == PieceTypeOfChar(tolower(ch))
              IN  IF pt = NO_PIECE_TYPE THEN
                      ParseBoardLoop(board, [st EXCEPT !.i = @ + 1])
                  ELSE
                      ParseBoardLoop(board,
                          [i |-> st.i + 1,
                           boards |-> putPiece(st.boards, st.sq, pt, c),
                           sq |-> st.sq + 1])

ParseBoard(board) ==
    ParseBoardLoop(board, [i |-> 1, boards |-> EmptyBoards, sq |-> A8])

\* A castling loop that does not tell the case of the letters apart.
ParseCastlingAnyCase(castling) ==
    (IF {"K", "k"} \cap Range(castling) # {} THEN {WHITE_OO, BLACK_OO} ELSE {})
    \cup (IF {"Q", "q"} \cap Range(castling) # {} THEN {WHITE_OOO, BLACK_OOO} ELSE {})

\* The castling loop of initializeFromFEN.
ParseCastling(castling) ==
    (IF "K" \in Range(castling) THEN {WHITE_OO} ELSE {})
    \cup (IF "Q" \in Range(castling) THEN {WHITE_OOO} ELSE {})
    \cup (IF "k" \in Range(castling) THEN {BLACK_OO} ELSE {})
    \cup (IF "q" \in Range(castling) THEN {BLACK_OOO} ELSE {})

\* Position::initializeFromFEN, i.e. Position(fen)
initializeFromFEN(fen) ==
    LET toks == Tokens(fen)
        color == Token(toks, 2)
        enPassant == Token(toks, 4)
    IN  [pieceBitboards |-> ParseBoard(Token(toks, 1)),
         sideToMove     |-> IF color = <<"w">> THEN WHITE ELSE BLACK,
         castlingRights |-> ParseCastling(Token(toks, 3)),
         enPassantSquare |-> IF enPassant = <<"-">> THEN NO_SQUARE
                             ELSE stringToSquare(enPassant),
         halfmoveClock  |-> StringToInt(Token(toks, 5)),
         fullmoveNumber |-> StringToInt(Token(toks, 6)),
         zobristHash    |-> 0]

\* switch (pt) of toFEN, default '?'
CharOfPieceType(pt) ==
    CASE pt = PAWN   -> "p"
      [] pt = KNIGHT -> "n"
      [] pt = BISHOP -> "b"
      [] pt = ROOK   -> "r"
      [] pt = QUEEN  -> "q"
      [] pt = KING   -> "k"
      [] OTHER       -> "?"

\* The character toFEN writes for the piece p.
FenPieceChar(p) ==
    LET ch == CharOfPieceType(typeOf(p))
    IN  IF colorOf(p) = WHITE THEN toupper(ch) ELSE ch

\* One rank of the board field: the inner file loop from `file` on, and the
\* trailing count and separator.
RECURSIVE FenRankLoop(_, _, _, _, _)
FenRankLoop(p, rank, file, str, emptyCount) ==
    IF file >= 8 THEN
        (IF emptyCount > 0 THEN str \o IntToString(emptyCount) ELSE str)
        \o (IF rank > 0 THEN <<"/">> ELSE <<>>)
    ELSE LET piece == getPieceAt(p, makeSquare(file, rank)) IN
         IF piece = NO_PIECE THEN FenRankLoop(p, rank, file + 1, str, emptyCount + 1)
         ELSE FenRankLoop(p, rank, file + 1,
                          (IF emptyCount > 0 THEN str \o IntToString(emptyCount) ELSE str)
                             \o <<FenPieceChar(piece)>>,
                          0)

FenRank(p, rank) == FenRankLoop(p, rank, 0, <<>>, 0)

\* Position::toFEN
toFEN(p) ==
    LET board == FenRank(p, 7) \o FenRank(p, 6) \o FenRank(p, 5) \o FenRank(p, 4)
                 \o FenRank(p, 3) \o FenRank(p, 2) \o FenRank(p, 1) \o FenRank(p, 0)
        castling ==
            IF p.castlingRights = NO_CASTLING THEN <<"-">>
            ELSE (IF WHITE_OO \in p.castlingRights THEN <<"K">> ELSE <<>>)
                 \o (IF WHITE_OOO \in p.castlingRights THEN <<"Q">> ELSE <<>>)
                 \o (IF BLACK_OO \in p.castlingRights THEN <<"k">> ELSE <<>>)
                 \o (IF BLACK_OOO \in p.castlingRights THEN <<"q">> ELSE <<>>)
    IN  board
        \o <<" ", IF p.sideToMove = WHITE THEN "w" ELSE "b">>
        \o <<" ">> \o castling
        \o <<" ">> \o squareToString(p.enPassantSquare)
        \o <<" ">> \o IntToString(p.halfmoveClock)
        \o <<" ">> \o IntToString(p.fullmoveNumber)

\* Position::operator==
PositionEquals(p, other) ==
    /\ p.pieceBitboards = other.pieceBitboards
    /\ p.sideToMove = other.sideToMove
    /\ p.castlingRights = other.castlingRights
    /\ p.enPassantSquare = other.enPassantSquare

\* ------------------------------------------------------------------------
\* The program as a state machine: a caller (perft, search, a game) holds a
\* Position, asks the generator for its legal moves and applies one of them.
\* ------------------------------------------------------------------------

\* perft.cpp : the positions of the perft suite after the starting position.
KIWIPETE_FEN ==
    << "r", "3", "k", "2", "r", "/", "p", "1", "p", "p", "q", "p",
       "b", "1", "/", "b", "n", "2", "p", "n", "p", "1", "/", "3",
       "P", "N", "3", "/", "1", "p", "2", "P", "3", "/", "2", "N",
       "2", "Q", "1", "p", "/", "P", "P", "P", "B", "B", "P", "P",
       "P", "/", "R", "3", "K", "2", "R", " ", "w", " ", "K", "Q",
       "k", "q", " ", "-", " ", "0", " ", "1" >>

POSITION_3_FEN ==
    << "8", "/", "2", "p", "5", "/", "3", "p", "4", "/", "K", "P",
       "5", "r", "/", "1", "R", "3", "p", "1", "k", "/", "8", "/",
       "4", "P", "1", "P", "1", "/", "8", " ", "w", " ", "-", " ",
       "-", " ", "0", " ", "1" >>

POSITION_4_FEN ==
    << "r", "3", "k", "2", "r", "/", "P", "p", "p", "p", "1", "p",
       "p", "p", "/", "1", "b", "3", "n", "b", "N", "/", "n", "P",
       "6", "/", "B", "B", "P", "1", "P", "3", "/", "q", "4", "N",
       "2", "/", "P", "p", "1", "P", "2", "P", "P", "/", "R", "2",
       "Q", "1", "R", "K", "1", " ", "w", " ", "k", "q", " ", "-",
       " ", "0", " ", "1" >>

POSITION_5_FEN ==
    << "r", "n", "b", "q", "1", "k", "1", "r", "/", "p", "p", "1",
       "P", "b", "p", "p", "p", "/", "2", "p", "5", "/", "8", "/",
       "2", "B", "5", "/", "8", "/", "P", "P", "P", "1", "N", "n",
       "P", "P", "/", "R", "N", "B", "Q", "K", "2", "R", " ", "w",
       " ", "K", "Q", " ", "-", " ", "1", " ", "8" >>

\* testPositions of PerftTester::runPerftSuite, in the order of the source.
testPositions ==
    << STARTING_FEN, KIWIPETE_FEN, POSITION_3_FEN, POSITION_4_FEN,
       POSITION_5_FEN >>

\* ------------------------------------------------------------------------
\* evaluator.h, evaluator.cpp : the static evaluation.  The tables are
\* indexed by square, entry sq + 1 of the tuple being table[sq].
\* ------------------------------------------------------------------------
PieceValue ==
    (PAWN :> 100) @@ (KNIGHT :> 320) @@ (BISHOP :> 330) @@ (ROOK :> 500)
    @@ (QUEEN :> 900) @@ (KING :> 20000)

pawnTable ==
    <<   0,   0,   0,   0,   0,   0,   0,   0,
        50,  50,  50,  50,  50,  50,  50,  50,
        10,  10,  20,  30,  30,  20,  10,  10,
         5,   5,  10,  25,  25,  10,   5,   5,
         0,   0,   0,  20,  20,   0,   0,   0,
         5,  -5, -10,   0,   0, -10,  -5,   5,
         5,  10,  10, -20, -20,  10,  10,   5,
         0,   0,   0,   0,   0,   0,   0,   0 >>

knightTable ==
    << -50, -40, -30, -30, -30, -30, -40, -50,
       -40, -20,   0,   0,   0,   0, -20, -40,
       -30,   0,  10,  15,  15,  10,   0, -30,
       -30,   5,  15,  20,  20,  15,   5, -30,
       -30,   0,  15,  20,  20,  15,   0, -30,
       -30,   5,  10,  15,  15,  10,   5, -30,
       -40, -20,   0,   5,   5,   0, -20, -40,
       -50, -40, -30, -30, -30, -30, -40, -50 >>

bishopTable ==
    << -20, -10, -10, -10, -10, -10, -10, -20,
       -10,   0,   0,   0,   0,   0,   0, -10,
       -10,   0,   5,  10,  10,   5,   0, -10,
       -10,   5,   5,  10,  10,   5,   5, -10,
       -10,   0,  10,  10,  10,  10,   0, -10,
       -10,  10,  10,  10,  10,  10,  10, -10,
       -10,   5,   0,   0,   0,   0,   5, -10,
       -20, -10, -10, -10, -10, -10, -10, -20 >>

rookTable ==
    <<   0,   0,   0,   0,   0,   0,   0,   0,
         5,  10,  10,  10,  10,  10,  10,   5,
        -5,   0,   0,   0,   0,   0,   0,  -5,
        -5,   0,   0,   0,   0,   0,   0,  -5,
        -5,   0,   0,   0,   0,   0,   0,  -5,
        -5,   0,   0,   0,   0,   0,   0,  -5,
        -5,   0,   0,   0,   0,   0,   0,  -5,
         0,   0,   0,   5,   5,   0,   0,   0 >>

queenTable ==
    << -20, -10, -10,  -5,  -5, -10, -10, -20,
       -10,   0,   0,   0,   0,   0,   0, -10,
       -10,   0,   5,   5,   5,   5,   0, -10,
        -5,   0,   5,   5,   5,   5,   0,  -5,
         0,   0,   5,   5,   5,   5,   0,  -5,
       -10,   5,   5,   5,   5,   5,   0, -10,
       -10,   0,   5,   0,   0,   0,   0, -10,
       -20, -10, -10,  -5,  -5, -10, -10, -20 >>

kingMiddlegameTable ==
    << -30, -40, -40, -50, -50, -40, -40, -30,
       -30, -40, -40, -50, -50, -40, -40, -30,
       -30, -40, -40, -50, -50, -40, -40, -30,
       -30, -40, -40, -50, -50, -40, -40, -30,
       -20, -30, -30, -40, -40, -30, -30, -20,
       -10, -20, -20, -20, -20, -20, -20, -10,
        20,  20,   0,   0,   0,   0,  20,  20,
        20,  30,  10,   0,   0,  10,  30,  20 >>

kingEndgameTable ==
    << -50, -40, -30, -20, -20, -30, -40, -50,
       -30, -20, -10,   0,   0, -10, -20, -30,
       -30, -10,  20,  30,  30,  20, -10, -30,
       -30, -10,  30,  40,  40,  30, -10, -30,
       -30, -10,  30,  40,  40,  30, -10, -30,
       -30, -10,  20,  30,  30,  20, -10, -30,
       -30, -30,   0,   0,   0,   0, -30, -30,
       -50, -30, -30, -30, -30, -30, -30, -50 >>

\* sq ^ 56 on a square: the same file on the mirrored rank.
FlipVertically(sq) == makeSquare(fileOf(sq), 7 - rankOf(sq))

getPieceSquareValue(piece, square, color, endgame) ==
    LET sq == IF color = BLACK THEN FlipVertically(square) ELSE square
    IN  CASE piece = PAWN -> pawnTable[sq + 1]
          [] piece = KNIGHT -> knightTable[sq + 1]
          [] piece = BISHOP -> bishopTable[sq + 1]
          [] piece = ROOK -> rookTable[sq + 1]
          [] piece = QUEEN -> queenTable[sq + 1]
          [] piece = KING -> IF endgame THEN kingEndgameTable[sq + 1]
                             ELSE kingMiddlegameTable[sq + 1]
          [] OTHER -> 0

\* FILE_A << file, for a file 0..7.
FileMaskTable == [file \in 0..7 |-> {sq \in Squares : fileOf(sq) = file}]
FileMask(file) == FileMaskTable[file]

getMaterialBalance(pos) ==
    (popcount(getPieceBitboard(pos, PAWN, WHITE))
       - popcount(getPieceBitboard(pos, PAWN, BLACK))) * PieceValue[PAWN]
    + (popcount(getPieceBitboard(pos, KNIGHT, WHITE))
       - popcount(getPieceBitboard(pos, KNIGHT, BLACK))) * PieceValue[KNIGHT]
    + (popcount(getPieceBitboard(pos, BISHOP, WHITE))
       - popcount(getPieceBitboard(pos, BISHOP, BLACK))) * PieceValue[BISHOP]
    + (popcount(getPieceBitboard(pos, ROOK, WHITE))
       - popcount(getPieceBitboard(pos, ROOK, BLACK))) * PieceValue[ROOK]
    + (popcount(getPieceBitboard(pos, QUEEN, WHITE))
       - popcount(getPieceBitboard(pos, QUEEN, BLACK))) * PieceValue[QUEEN]

isEndgame(pos) ==
    popcount(getPieceBitboard(pos, QUEEN, WHITE)) * PieceValue[QUEEN]
    + popcount(getPieceBitboard(pos, QUEEN, BLACK)) * PieceValue[QUEEN]
    + popcount(getPieceBitboard(pos, ROOK, WHITE)) * PieceValue[ROOK]
    + popcount(getPieceBitboard(pos, ROOK, BLACK)) * PieceValue[ROOK]
    < 2000

\* while (pieces) colorScore += getPieceSquareValue(pt, popLsb(pieces), c, endgame).
RECURSIVE PieceSquareSum(_, _, _, _)
PieceSquareSum(pt, pieces, c, endgame) ==
    IF pieces = {} THEN 0
    ELSE LET sq == lsb(pieces)
         IN  getPieceSquareValue(pt, sq, c, endgame)
             + PieceSquareSum(pt, pieces \ {sq}, c, endgame)

\* The loop over the piece types PAWN..KING of one color, from pt on.
RECURSIVE ColorScore(_, _, _, _)
ColorScore(pos, c, pt, endgame) ==
    IF pt > KING THEN 0
    ELSE PieceSquareSum(pt, getPieceBitboard(pos, pt, c), c, endgame)
         + ColorScore(pos, c, pt + 1, endgame)

getPieceSquareScore(pos) ==
    LET endgame == isEndgame(pos)
    IN  ColorScore(pos, WHITE, PAWN, endgame) - ColorScore(pos, BLACK, PAWN, endgame)

\* The front span of a pawn of color us on sq: the squares of its file and of
\* the adjacent files on the ranks ahead of it.
FrontSpanTable ==
    [us \in Colors |-> [sq \in Squares |->
        { s \in Squares :
            /\ Abs(fileOf(s) - fileOf(sq)) <= 1
            /\ IF us = WHITE THEN rankOf(s) > rankOf(sq)
               ELSE rankOf(s) < rankOf(sq) }]]
FrontSpan(sq, us) == FrontSpanTable[us][sq]

getPassedPawns(ourPawns, theirPawns, us) ==
    { sq \in ourPawns : FrontSpan(sq, us) \cap theirPawns = {} }

\* The doubled-pawn loop, from file on.
RECURSIVE DoubledPawns(_, _, _)
DoubledPawns(whitePawns, blackPawns, file) ==
    IF file >= 8 THEN 0
    ELSE LET whitePawnsOnFile == popcount(whitePawns \cap FileMask(file))
             blackPawnsOnFile == popcount(blackPawns \cap FileMask(file))
         IN  (IF whitePawnsOnFile > 1 THEN -(10 * (whitePawnsOnFile - 1)) ELSE 0)
             + (IF blackPawnsOnFile > 1 THEN 10 * (blackPawnsOnFile - 1) ELSE 0)
             + DoubledPawns(whitePawns, blackPawns, file + 1)

\* The isolated-pawn loop, from file on.
RECURSIVE IsolatedPawns(_, _, _)
IsolatedPawns(whitePawns, blackPawns, file) ==
    IF file >= 8 THEN 0
    ELSE LET fileMask == FileMask(file)
             adjacentFiles ==
                 (IF file > 0 THEN FileMask(file - 1) ELSE {})
                 \cup (IF file < 7 THEN FileMask(file + 1) ELSE {})
         IN  (IF whitePawns \cap fileMask # {} /\ whitePawns \cap adjacentFiles = {}
              THEN -15 ELSE 0)
             + (IF blackPawns \cap fileMask # {} /\ blackPawns \cap adjacentFiles = {}
                THEN 15 ELSE 0)
             + IsolatedPawns(whitePawns, blackPawns, file + 1)

\* while (passed) score += 10 + rank * rank * 5, rank counted from the pawn's
\* own first rank.
RECURSIVE PassedPawnBonus(_, _)
PassedPawnBonus(passed, us) ==
    IF passed = {} THEN 0
    ELSE LET sq == lsb(passed)
             rank == IF us = WHITE THEN rankOf(sq) ELSE 7 - rankOf(sq)
         IN  10 + rank * rank * 5 + PassedPawnBonus(passed \ {sq}, us)

evaluatePawnStructure(pos) ==
    LET whitePawns == getPieceBitboard(pos, PAWN, WHITE)
        blackPawns == getPieceBitboard(pos, PAWN, BLACK)
    IN  DoubledPawns(whitePawns, blackPawns, 0)
        + IsolatedPawns(whitePawns, blackPawns, 0)
        + PassedPawnBonus(getPassedPawns(whitePawns, blackPawns, WHITE), WHITE)
        - PassedPawnBonus(getPassedPawns(blackPawns, whitePawns, BLACK), BLACK)

\* while (knights) score += popcount(knightAttacksBB(sq) & ~own) * 4.
RECURSIVE KnightMobility(_, _)
KnightMobility(knights, own) ==
    IF knights = {} THEN 0
    ELSE LET sq == lsb(knights)
         IN  popcount(knightAttacksBB(sq) \ own) * 4
             + KnightMobility(knights \ {sq}, own)

\* while (bishops) score += popcount(bishopAttacksBB(sq, occupied) & ~own) * 3.
RECURSIVE BishopMobility(_, _, _)
BishopMobility(bishops, occupied, own) ==
    IF bishops = {} THEN 0
    ELSE LET sq == lsb(bishops)
         IN  popcount(bishopAttacksBB(sq, occupied) \ own) * 3
             + BishopMobility(bishops \ {sq}, occupied, own)

evaluateMobility(pos) ==
    LET occupied == getOccupiedBitboard(pos)
    IN  KnightMobility(getPieceBitboard(pos, KNIGHT, WHITE), getColorBitboard(pos, WHITE))
        - KnightMobility(getPieceBitboard(pos, KNIGHT, BLACK), getColorBitboard(pos, BLACK))
        + BishopMobility(getPieceBitboard(pos, BISHOP, WHITE), occupied,
                         getColorBitboard(pos, WHITE))
        - BishopMobility(getPieceBitboard(pos, BISHOP, BLACK), occupied,
                         getColorBitboard(pos, BLACK))

\* lsb(pos.getPieceBitboard(KING, color)): the king's square, and any square
\* when the color has no king (__builtin_ctzll(0) is undefined).
KingSquareReads(pos, color) ==
    IF getPieceBitboard(pos, KING, color) = {} THEN Squares
    ELSE { lsb(getPieceBitboard(pos, KING, color)) }

\* The values lsb returns to the two evaluateKingSafety calls of one evaluate.
EvaluateReads(pos) ==
    { (WHITE :> w) @@ (BLACK :> b) :
        w \in KingSquareReads(pos, WHITE), b \in KingSquareReads(pos, BLACK) }

Max(a, b) == IF a > b THEN a ELSE b
Min(a, b) == IF a < b THEN a ELSE b

evaluateKingSafety(pos, color, kingSquare) ==
    LET kingZone == kingAttacksBB(kingSquare)
        ourPawns == getPieceBitboard(pos, PAWN, color)
        pawnShield == popcount(kingZone \cap ourPawns)
        kingFile == fileOf(kingSquare)
        openFiles == { f \in Max(0, kingFile - 1) .. Min(7, kingFile + 1) :
                         ourPawns \cap FileMask(f) = {} }
    IN  pawnShield * 10 - 20 * Cardinality(openFiles)

centerSquares ==
    << makeSquare(3, 3), makeSquare(4, 3), makeSquare(3, 4), makeSquare(4, 4) >>

evaluateCenterControl(pos) ==
    LET whiteControl == { sq \in Range(centerSquares) : isSquareAttacked(pos, sq, WHITE) }
        blackControl == { sq \in Range(centerSquares) : isSquareAttacked(pos, sq, BLACK) }
        centerBitboard == Range(centerSquares)
    IN  popcount(whiteControl) * 10 - popcount(blackControl) * 10
        + popcount(centerBitboard \cap getColorBitboard(pos, WHITE)) * 15
        - popcount(centerBitboard \cap getColorBitboard(pos, BLACK)) * 15

\* The same sum returned from White's point of view whoever is to move.
evaluateWhiteView(pos, reads) ==
    getMaterialBalance(pos)
    + getPieceSquareScore(pos)
    + evaluatePawnStructure(pos)
    + evaluateMobility(pos)
    + evaluateKingSafety(pos, WHITE, reads[WHITE])
    - evaluateKingSafety(pos, BLACK, reads[BLACK])
    + evaluateCenterControl(pos)

\* Evaluator::evaluate, reads[c] being what lsb returned for the king of c.
evaluate(pos, reads) ==
    LET score == getMaterialBalance(pos)
                 + getPieceSquareScore(pos)
                 + evaluatePawnStructure(pos)
                 + evaluateMobility(pos)
                 + evaluateKingSafety(pos, WHITE, reads[WHITE])
                 - evaluateKingSafety(pos, BLACK, reads[BLACK])
                 + evaluateCenterControl(pos)
    IN  IF pos.sideToMove = WHITE THEN score ELSE -score


\* ------------------------------------------------------------------------
\* chess_analyzer.cpp : ChessAnalyzer::Impl::search and findBestMove.
\* env is what one run of the build does where the language leaves it open:
\* env.ctz0 is the value of lsb on an empty king board, env.chk0 the answer
\* of isInCheck for a side without king, env.order the order in which
\* std::sort leaves the moves it compares equal.
\* ------------------------------------------------------------------------
INT_MAX == 2147483647

\* -20000 + depth, the score of a position without legal moves and in check.
MATE_SCORE == 20000

RECURSIVE Reverse(_)
Reverse(s) == IF s = <<>> THEN <<>> ELSE Reverse(Tail(s)) \o <<Head(s)>>

\* The comparator of the sort: a move is a capture if its target is occupied.
isCaptureMove(pos, move) == getPieceAt(pos, move.to) # NO_PIECE

\* std::sort with aCapture > bCapture: the captures first.  The order within
\* the captures and within the other moves is not specified; "stable" keeps
\* the order of generation, "reversed" inverts it in both groups.
SortOrders == {"stable", "reversed"}

sortCapturesFirst(moves, pos, order) ==
    LET IsCapture(move) == isCaptureMove(pos, move)
        IsQuiet(move) == ~isCaptureMove(pos, move)
        captures == SelectSeq(moves, IsCapture)
        quiet == SelectSeq(moves, IsQuiet)
    IN  IF order = "stable" THEN captures \o quiet
        ELSE Reverse(captures) \o Reverse(quiet)

\* evaluator.evaluate(pos) in the run env.
evaluateIn(pos, env) ==
    LET Read(c) == IF getPieceBitboard(pos, KING, c) = {} THEN env.ctz0
                   ELSE lsb(getPieceBitboard(pos, KING, c))
    IN  evaluate(pos, (WHITE :> Read(WHITE)) @@ (BLACK :> Read(BLACK)))

\* pos.isInCheck() in the run env.
isInCheckIn(pos, env) ==
    IF getPieceBitboard(pos, KING, pos.sideToMove) = {} THEN env.chk0
    ELSE TRUE \in isInCheck(pos)

\* A loop that ends after its first move, whatever the window.
cutoffAfterFirstMove(alpha, beta) == TRUE

\* alpha >= beta, the test that ends the loop over the moves.
betaCutoff(alpha, beta) == alpha >= beta

RECURSIVE search(_, _, _, _, _)
RECURSIVE searchLoop(_)
search(pos, depth, alpha, beta, env) ==
    IF depth = 0
    THEN [move |-> NULL_MOVE, score |-> evaluateIn(pos, env)]
    ELSE LET moves == generateLegalMoves(pos, env)
         IN  IF Len(moves) = 0
             THEN IF isInCheckIn(pos, env)
                  THEN [move |-> NULL_MOVE, score |-> -MATE_SCORE + depth]
                  ELSE [move |-> NULL_MOVE, score |-> 0]
             ELSE searchLoop([pos |-> pos, depth |-> depth,
                              moves |-> sortCapturesFirst(moves, pos, env.order),
                              i |-> 1, alpha |-> alpha, beta |-> beta,
                              best |-> [move |-> moves[1], score |-> -INT_MAX],
                              env |-> env])

\* for (const Move& move : moves), from the i-th move of the sorted list on.
searchLoop(s) ==
    IF s.i > Len(s.moves) THEN s.best
    ELSE LET move == s.moves[s.i]
             result == search(makeMove(s.pos, move), s.depth - 1,
                              -s.beta, -s.alpha, s.env)
             score == -result.score
             best == IF score > s.best.score
                     THEN [move |-> move, score |-> score] ELSE s.best
             alpha == Max(s.alpha, score)
         IN  IF betaCutoff(alpha, s.beta) THEN best
             ELSE searchLoop([s EXCEPT !.i = s.i + 1, !.alpha = alpha,
                                       !.best = best])

\* The search one ply short of the depth asked for.
findBestMoveOnePlyShort(position, depth, env) ==
    search(position, depth - 1, -INT_MAX, INT_MAX, env)

\* The SearchResult findBestMove takes its move from.
findBestMove(position, depth, env) ==
    search(position, depth, -INT_MAX, INT_MAX, env)

\* The negamax value of pos at depth: the search without window and without
\* ordering, the value of a position being the greatest of the negated
\* values of its successors.
RECURSIVE negamax(_, _, _)
RECURSIVE negamaxLoop(_)
negamax(pos, depth, env) ==
    IF depth = 0 THEN evaluateIn(pos, env)
    ELSE LET moves == generateLegalMoves(pos, env)
         IN  IF Len(moves) = 0
             THEN IF isInCheckIn(pos, env) THEN -MATE_SCORE + depth ELSE 0
             ELSE negamaxLoop([pos |-> pos, depth |-> depth, moves |-> moves,
                               i |-> 1, best |-> -INT_MAX, env |-> env])

negamaxLoop(s) ==
    IF s.i > Len(s.moves) THEN s.best
    ELSE LET score == -negamax(makeMove(s.pos, s.moves[s.i]), s.depth - 1, s.env)
         IN  negamaxLoop([s EXCEPT !.i = s.i + 1, !.best = Max(s.best, score)])

\* Some position within depth plies of pos has an empty king board.
RECURSIVE TreeLacksKing(_, _)
TreeLacksKing(pos, depth) ==
    \/ \E c \in Colors : getPieceBitboard(pos, KING, c) = {}
    \/ /\ depth > 0
       /\ \E move \in Range(generateLegalMoves(pos, [ctz0 |-> 0, chk0 |-> FALSE])) :
            TreeLacksKing(makeMove(pos, move), depth - 1)

\* The runs that can differ for a search of depth plies from pos.
SearchEnvs(pos, depth) ==
    IF TreeLacksKing(pos, depth)
    THEN [ctz0 : Squares, chk0 : BOOLEAN, order : SortOrders]
    ELSE [ctz0 : {0}, chk0 : {FALSE}, order : SortOrders]

\* A position without legal moves and not in check: the white king a1 has the
\* squares b1 and b2 only, both next to the black king c2, and the pawn a2 is
\* blocked.
STALEMATE_FEN ==
    << "8", "/", "8", "/", "8", "/", "8", "/", "8", "/", "p", "7",
       "/", "P", "1", "k", "5", "/", "K", "7", " ", "w", " ", "-",
       " ", "-", " ", "0", " ", "1" >>

\* The positions the analysis starts from: those of the suite and the
\* stalemate.
analysisPositions == testPositions \o << STALEMATE_FEN >>


\* ------------------------------------------------------------------------
\* pgn_parser.cpp : PGNParser::Impl.  Strings are sequences of characters.
\* ------------------------------------------------------------------------
\* str.find(ch): the first index of ch in str, 0 when there is none.
FindChar(str, ch) ==
    IF ch \in Range(str) THEN lsb({ i \in DOMAIN str : str[i] = ch }) ELSE 0

\* str.erase(i, 1)
EraseAt(str, i) == SubSeq(str, 1, i - 1) \o SubSeq(str, i + 1, Len(str))

\* The piece type of the leading upper-case letter of a SAN move, or
\* NO_PIECE_TYPE for the default branch, which returns NULL_MOVE.
PieceTypeOfSanLetter(ch) ==
    CASE ch = "N" -> KNIGHT
      [] ch = "B" -> BISHOP
      [] ch = "R" -> ROOK
      [] ch = "Q" -> QUEEN
      [] ch = "K" -> KING
      [] OTHER    -> NO_PIECE_TYPE

\* The promotion type of the (lower-cased) letter after '=': the default
\* branch returns NULL_MOVE before the value is used.
PromotionOfSanLetter(ch) ==
    CASE ch = "r" -> PROMOTE_TO_ROOK
      [] ch = "b" -> PROMOTE_TO_BISHOP
      [] ch = "n" -> PROMOTE_TO_KNIGHT
      [] OTHER    -> PROMOTE_TO_QUEEN

\* The test of the candidates loop on one legal move.
IsCandidate(pos, move, to, pieceType, isCapture, isPromo, promotion) ==
    /\ move.to = to
    /\ typeOf(getPieceAt(pos, move.from)) = pieceType
    /\ ~(isCapture /\ getPieceAt(pos, to) = NO_PIECE /\ ~isEnPassant(move))
    /\ ~(~isCapture /\ (getPieceAt(pos, to) # NO_PIECE \/ isEnPassant(move)))
    /\ ~(isPromo /\ ~isPromotion(move))
    /\ ~(~isPromo /\ isPromotion(move))
    /\ ~(isPromo /\ move.promotion # promotion)

\* The test of the disambiguation loop: every file letter and every rank
\* digit of str is that of the move's source square.
MatchesDisambiguation(move, str) ==
    \A i \in DOMAIN str :
        LET c == str[i] IN
        /\ (c \in Range(SubSeq(LowerChars, 1, 8)) =>
               fileOf(move.from) = IndexOf(LowerChars, c) - 1)
        /\ (c \in Range(SubSeq(DigitChars, 2, 9)) =>
               rankOf(move.from) = DigitValue(c) - 1)

\* The part of parseAlgebraicMoveImpl after the promotion and the capture
\* mark are taken off: str is what is left of the move text.
ResolveSan(pos, str0, isCapture, isPromo, promotion, ub) ==
    IF Len(str0) < 2 THEN NULL_MOVE
    ELSE
    LET to == stringToSquare(SubSeq(str0, Len(str0) - 1, Len(str0)))
        str1 == SubSeq(str0, 1, Len(str0) - 2)
        hasLetter == str1 # <<>> /\ isupper(str1[1])
        pieceType == IF hasLetter THEN PieceTypeOfSanLetter(str1[1]) ELSE PAWN
        str == IF hasLetter THEN Tail(str1) ELSE str1
    IN  IF to = NO_SQUARE \/ pieceType = NO_PIECE_TYPE THEN NULL_MOVE
        ELSE
        LET Candidate(move) ==
                IsCandidate(pos, move, to, pieceType, isCapture, isPromo, promotion)
            Matches(move) == MatchesDisambiguation(move, str)
            candidates == SelectSeq(generateLegalMoves(pos, ub), Candidate)
            filtered == IF Len(candidates) > 1 /\ str # <<>>
                        THEN SelectSeq(candidates, Matches)
                        ELSE candidates
        IN  IF Len(filtered) = 1 THEN filtered[1] ELSE NULL_MOVE

SAN_OO == << "O", "-", "O" >>
SAN_00 == << "0", "-", "0" >>
SAN_OOO == << "O", "-", "O", "-", "O" >>
SAN_000 == << "0", "-", "0", "-", "0" >>

parseAlgebraicMoveImpl(pos, moveStr, ub) ==
    IF moveStr = <<>> THEN NULL_MOVE
    ELSE IF moveStr = SAN_OO \/ moveStr = SAN_00
    THEN Move(IF pos.sideToMove = WHITE THEN E1 ELSE E8,
              IF pos.sideToMove = WHITE THEN G1 ELSE G8,
              CASTLING, PROMOTE_TO_QUEEN)
    ELSE IF moveStr = SAN_OOO \/ moveStr = SAN_000
    THEN Move(IF pos.sideToMove = WHITE THEN E1 ELSE E8,
              IF pos.sideToMove = WHITE THEN C1 ELSE C8,
              CASTLING, PROMOTE_TO_QUEEN)
    ELSE
    LET strA == IF moveStr[Len(moveStr)] \in {"+", "#"}
                THEN SubSeq(moveStr, 1, Len(moveStr) - 1) ELSE moveStr
        isPromo == Len(strA) >= 2 /\ strA[Len(strA) - 1] = "="
        promoChar == tolower(strA[Len(strA)])
        promotion == IF isPromo THEN PromotionOfSanLetter(promoChar)
                     ELSE PROMOTE_TO_QUEEN
        strB == IF isPromo THEN SubSeq(strA, 1, Len(strA) - 2) ELSE strA
        capturePos == FindChar(strB, "x")
        isCapture == capturePos # 0
        strC == IF isCapture THEN EraseAt(strB, capturePos) ELSE strB
    IN  IF isPromo /\ promoChar \notin {"q", "r", "b", "n"} THEN NULL_MOVE
        ELSE ResolveSan(pos, strC, isCapture, isPromo, promotion, ub)

\* PGNParser::parseAlgebraicMove: the moves the call can return.
parseAlgebraicMove(pos, moveStr) ==
    { parseAlgebraicMoveImpl(pos, moveStr, ub) : ub \in UndefinedReads(pos) }

\* removeCommentsAndVariations: the characters outside braces and
\* parentheses; the two levels are ints and may go below zero.
RECURSIVE removeLoop(_)
removeLoop(s) ==
    IF s.i > Len(s.text) THEN s.result
    ELSE LET c == s.text[s.i]
             next == [s EXCEPT !.i = s.i + 1]
         IN  CASE c = "{" -> removeLoop([next EXCEPT !.braceLevel = s.braceLevel + 1])
               [] c = "}" -> removeLoop([next EXCEPT !.braceLevel = s.braceLevel - 1])
               [] c = "(" -> removeLoop([next EXCEPT !.parenLevel = s.parenLevel + 1])
               [] c = ")" -> removeLoop([next EXCEPT !.parenLevel = s.parenLevel - 1])
               [] OTHER   ->
                    IF s.braceLevel = 0 /\ s.parenLevel = 0
                    THEN removeLoop([next EXCEPT !.result = Append(s.result, c)])
                    ELSE removeLoop(next)

removeCommentsAndVariations(text) ==
    removeLoop([text |-> text, i |-> 1, braceLevel |-> 0, parenLevel |-> 0,
                result |-> <<>>])

\* The white space operator>> skips.
isspace(ch) == ch \in {" ", "\n", "\t", "\r"}

\* stream >> token, over and over: the maximal runs of other characters.
RECURSIVE wordsLoop(_)
wordsLoop(s) ==
    IF s.i > Len(s.text)
    THEN IF s.word = <<>> THEN s.words ELSE Append(s.words, s.word)
    ELSE LET c == s.text[s.i]
             next == [s EXCEPT !.i = s.i + 1]
         IN  IF isspace(c)
             THEN wordsLoop([next EXCEPT
                     !.words = IF s.word = <<>> THEN s.words
                               ELSE Append(s.words, s.word),
                     !.word = <<>>])
             ELSE wordsLoop([next EXCEPT !.word = Append(s.word, c)])

Words(text) == wordsLoop([text |-> text, i |-> 1, word |-> <<>>, words |-> <<>>])

\* The tokens tokenize pushes for one word: a word with a '.' before its
\* end is split behind the first '.'.
SplitMoveNumber(token) ==
    LET dotPos == FindChar(token, ".")
    IN  IF dotPos # 0 /\ dotPos < Len(token)
        THEN << SubSeq(token, 1, dotPos), SubSeq(token, dotPos + 1, Len(token)) >>
        ELSE << token >>

RECURSIVE Flatten(_)
Flatten(seqs) == IF seqs = <<>> THEN <<>> ELSE Head(seqs) \o Flatten(Tail(seqs))

tokenize(text) ==
    LET words == Words(text)
    IN  Flatten([ i \in DOMAIN words |-> SplitMoveNumber(words[i]) ])

RESULT_WHITE == << "1", "-", "0" >>
RESULT_BLACK == << "0", "-", "1" >>
RESULT_DRAW == << "1", "/", "2", "-", "1", "/", "2" >>
RESULT_OPEN == << "*" >>

\* The test of parseMoveText that skips a token.
IsSkipped(token) ==
    \/ isdigit(token[1])
    \/ token \in {RESULT_WHITE, RESULT_BLACK, RESULT_DRAW, RESULT_OPEN}

INVALID_MOVE ==
    << "I", "n", "v", "a", "l", "i", "d", " ", "m", "o", "v", "e", ":", " " >>

\* The loop of parseMoveText from the i-th token on: the set of the pairs
\* of moves and lastError it can end with.
RECURSIVE parseLoop(_)
parseLoop(s) ==
    IF s.i > Len(s.tokens)
    THEN {[moves |-> s.moves, lastError |-> s.lastError]}
    ELSE LET token == s.tokens[s.i] IN
         IF IsSkipped(token) THEN parseLoop([s EXCEPT !.i = s.i + 1])
         ELSE UNION {
                LET move == parseAlgebraicMoveImpl(s.pos, token, ub) IN
                IF ~isNull(move)
                THEN parseLoop([s EXCEPT !.i = s.i + 1,
                                         !.moves = Append(s.moves, move),
                                         !.pos = makeMove(s.pos, move)])
                ELSE {[moves |-> s.moves, lastError |-> INVALID_MOVE \o token]}
                : ub \in UndefinedReads(s.pos) }

parseMoveText(moveText, initialFEN, lastError) ==
    parseLoop([tokens |-> tokenize(removeCommentsAndVariations(moveText)),
               i |-> 1,
               pos |-> initializeFromFEN(IF initialFEN = <<>> THEN STARTING_FEN
                                         ELSE initialFEN),
               moves |-> <<>>,
               lastError |-> lastError])

\* The move text parseGameImpl collects: the first line that is not a
\* header, then " " and the line for every line after it.
RECURSIVE JoinLines(_)
JoinLines(lines) ==
    IF lines = <<>> THEN <<>>
    ELSE IF Len(lines) = 1 THEN lines[1]
    ELSE JoinLines(SubSeq(lines, 1, Len(lines) - 1)) \o << " " >> \o lines[Len(lines)]

\* PGNParser::Impl::parseGameImpl on a text whose FEN header, if it has one,
\* holds fen, and whose lines after the headers are lines: lastError is
\* cleared, then parseMoveText fills moves.  The set of the outcomes.
parseGameImpl(fen, lines) ==
    { [initialFEN |-> fen, moves |-> r.moves, lastError |-> r.lastError] :
      r \in parseMoveText(JoinLines(lines), fen, <<>>) }


\* ------------------------------------------------------------------------
\* move.cpp : Move::toAlgebraic.
\* ------------------------------------------------------------------------
\* const char* symbols = " NBRQK", indexed by the piece type.
PieceSymbols == << " ", "N", "B", "R", "Q", "K" >>

\* const char* symbols = "QRBN", indexed by the promotion type.
PromotionSymbols == << "Q", "R", "B", "N" >>

\* The squares other than from that hold a piece of the side to move with
\* the type typeOf gives the moved piece: the loop stops at the first.
SameTypeSquares(pos, from, pieceType) ==
    { sq \in Squares \ {from} :
        LET p == getPieceAt(pos, sq)
        IN  p # NO_PIECE /\ typeOf(p) = pieceType /\ colorOf(p) = pos.sideToMove }

\* The disambiguation the loop over the squares writes.
Disambiguation(pos, from, pieceType) ==
    LET others == SameTypeSquares(pos, from, pieceType)
    IN  IF others = {} THEN << >>
        ELSE IF fileOf(lsb(others)) # fileOf(from)
        THEN << LowerChars[fileOf(from) + 1] >>
        ELSE << DigitChars[rankOf(from) + 2] >>

\* Move::toAlgebraic; check is what afterMove.isInCheck() answers.
toAlgebraic(m, pos, check) ==
    IF isNull(m) THEN << "-", "-" >>
    ELSE IF isCastling(m) THEN (IF m.to > m.from THEN SAN_OO ELSE SAN_OOO)
    ELSE
    LET pieceType == typeOf(getPieceAt(pos, m.from))
        symbol == IF pieceType # PAWN
                  THEN << PieceSymbols[pieceType + 1] >>
                       \o Disambiguation(pos, m.from, pieceType)
                  ELSE << >>
        capture == IF getPieceAt(pos, m.to) # NO_PIECE \/ isEnPassant(m)
                   THEN (IF pieceType = PAWN
                         THEN << LowerChars[fileOf(m.from) + 1] >> ELSE << >>)
                        \o << "x" >>
                   ELSE << >>
        promotion == IF isPromotion(m)
                     THEN << "=", PromotionSymbols[m.promotion + 1] >> ELSE << >>
    IN  symbol \o capture \o squareToString(m.to) \o promotion
        \o (IF check THEN << "+" >> ELSE << >>)

\* PGNParser::moveToAlgebraic: the texts the call can return (afterMove may
\* have no king to test).
moveToAlgebraic(pos, move) ==
    { toAlgebraic(move, pos, check) : check \in isInCheck(makeMove(pos, move)) }

\* "[" << key << " \"" << value << "\"]\n" for the headers, then "\n" if
\* there are any.  headers is the map as the sequence of its pairs.
RECURSIVE HeaderText(_)
HeaderText(headers) ==
    IF headers = << >> THEN << >>
    ELSE << "[" >> \o Head(headers)[1] \o << " ", "\"" >> \o Head(headers)[2]
         \o << "\"", "]", "\n" >> \o HeaderText(Tail(headers))

\* The loop of gameToPGN from the move with index s.i (from 0) on: the set
\* of the texts it can write.
RECURSIVE movesTextLoop(_)
movesTextLoop(s) ==
    IF s.i >= Len(s.moves) THEN { s.text }
    ELSE LET move == s.moves[s.i + 1]
             number == IF s.i % 2 = 0
                       THEN IntToString(s.i \div 2 + 1) \o << ".", " " >>
                       ELSE << >>
             break == IF (s.i + 1) % 2 = 0 /\ s.i + 1 < Len(s.moves)
                      THEN << "\n" >> ELSE << >>
         IN  UNION { movesTextLoop([s EXCEPT
                        !.i = s.i + 1,
                        !.pos = makeMove(s.pos, move),
                        !.text = s.text \o number \o san \o << " " >> \o break])
                     : san \in moveToAlgebraic(s.pos, move) }

\* PGNParser::gameToPGN: the set of the texts the call can return.
gameToPGN(game) ==
    { HeaderText(game.headers)
      \o (IF game.headers # << >> THEN << "\n" >> ELSE << >>)
      \o text \o game.result :
      text \in movesTextLoop([moves |-> game.moves, i |-> 0, text |-> << >>,
                  pos |-> initializeFromFEN(IF game.initialFEN = << >>
                                            THEN STARTING_FEN
                                            ELSE game.initialFEN)]) }

\* std::getline over a text: the lines between its '\n' characters, the
\* text after the last one included if it is not empty.
RECURSIVE linesLoop(_)
linesLoop(s) ==
    IF s.i > Len(s.text)
    THEN IF s.line = << >> THEN s.lines ELSE Append(s.lines, s.line)
    ELSE IF s.text[s.i] = "\n"
    THEN linesLoop([s EXCEPT !.i = s.i + 1, !.lines = Append(s.lines, s.line),
                             !.line = << >>])
    ELSE linesLoop([s EXCEPT !.i = s.i + 1,
                             !.line = Append(s.line, s.text[s.i])])

GetLines(text) == linesLoop([text |-> text, i |-> 1, line |-> << >>, lines |-> << >>])

VARIABLES
    root,       \* index in analysisPositions of the position the descent began at
    pos,        \* the position the caller now holds (newPos of the last call)
    receiver,   \* the position makeMove was last called on, as the call left it
    lastMove,   \* the move of the last makeMove call, NULL_MOVE before the first
    depth,      \* plies the caller still descends (perft's depth argument)
    io          \* the last call of a function of the library outside the
                \* descent: its name (op), its arguments and what it returned

vars == <<root, pos, receiver, lastMove, depth, io>>

\* No call outside the descent has been made.
NoCall == [op |-> "none"]

\* Plies explored from the starting position.
MaxDepth == 4

\* Plies explored from each other position of the suite.
SuiteDepth == 2

\* Position pos(test.fen) for a position of the suite; Position() is the
\* first of them.
Init ==
    /\ root \in DOMAIN testPositions
    /\ pos = initializeFromFEN(testPositions[root])
    /\ receiver = pos
    /\ lastMove = NULL_MOVE
    /\ depth = IF root = 1 THEN MaxDepth ELSE SuiteDepth
    /\ io = NoCall

\* moves = generateLegalMoves(pos); newPos = pos.makeMove(moves[i]); descend.
MakeMove ==
    /\ depth > 0
    /\ io = NoCall
    /\ \E ub \in UndefinedReads(pos) :
         \E move \in Range(generateLegalMoves(pos, ub)) :
            /\ pos' = makeMove(pos, move)
            /\ receiver' = makeMoveReceiver(pos, move)
            /\ lastMove' = move
            /\ depth' = depth - 1
    /\ UNCHANGED <<root, io>>

Next == MakeMove

Spec == Init /\ [][Next]_vars
\* ------------------------------------------------------------------------
\* perft.cpp : PerftTester::perft, the nodes field of its result.  The set of
\* the counts the call can return: one count on a position with both kings.
\* ------------------------------------------------------------------------
RECURSIVE perft(_, _)
RECURSIVE perftLoop(_, _, _, _)
perft(p, d) ==
    IF d = 0 THEN {1}
    ELSE UNION { perftLoop(generateLegalMoves(p, ub), 1, p, d) :
                 ub \in UndefinedReads(p) }

\* for (const Move& move : moves) result.nodes += ..., from the i-th move on.
perftLoop(moves, i, p, d) ==
    IF i > Len(moves) THEN {0}
    ELSE { a + b : a \in (IF d = 1 THEN {1} ELSE perft(makeMove(p, moves[i]), d - 1)),
                   b \in perftLoop(moves, i + 1, p, d) }

\* ------------------------------------------------------------------------
\* Properties.  lastMove # NULL_MOVE says that pos is the result of
\* receiver.makeMove(lastMove); root = 1 says that the descent began at the
\* starting position.
\* ------------------------------------------------------------------------
MoveMade == lastMove # NULL_MOVE

\* C1: in the position a move of generateLegalMoves leads to, the king of
\* the side that made the move is not attacked by the opponent.
MoverKingNotAttacked ==
    (root = 1 /\ MoveMade) =>
        LET mover == receiver.sideToMove IN
        \A king \in getPieceBitboard(pos, KING, mover) :
            ~isSquareAttacked(pos, king, Opp(mover))

\* C2: a normal move leaves on its target square exactly one piece, of the
\* type and the color of the piece that stood on its source square, and
\* leaves the source square empty.
NormalMoveKeepsPiece ==
    (MoveMade /\ lastMove.type = NORMAL) =>
        /\ getPieceAt(pos, lastMove.to) = getPieceAt(receiver, lastMove.from)
        /\ Cardinality({ cp \in Colors \X PieceTypes :
                         lastMove.to \in pos.pieceBitboards[cp[1]][cp[2]] }) = 1
        /\ lastMove.from \notin getOccupiedBitboard(pos)
\* C3: the twelve piece bitboards are pairwise disjoint, the two color
\* bitboards do not overlap, and their union is the occupied bitboard.
BitboardsDisjoint ==
    /\ \A c1, c2 \in Colors, t1, t2 \in PieceTypes :
          (c1 # c2 \/ t1 # t2) =>
              pos.pieceBitboards[c1][t1] \cap pos.pieceBitboards[c2][t2] = {}
    /\ getColorBitboard(pos, WHITE) \cap getColorBitboard(pos, BLACK) = {}
    /\ getColorBitboard(pos, WHITE) \cup getColorBitboard(pos, BLACK)
          = getOccupiedBitboard(pos)

\* A capture has been made on the way from the starting position, and the
\* boards are still disjoint.
CaptureMadeBoardsDisjoint ==
    /\ root = 1
    /\ MoveMade
    /\ lastMove.to \in getOccupiedBitboard(receiver)
    /\ BitboardsDisjoint

\* C4: each color has exactly one king in every position reached from the
\* starting position.
OneKingPerColor ==
    root = 1 => \A c \in Colors : popcount(getPieceBitboard(pos, KING, c)) = 1

\* C5: parsing the FEN string toFEN emits gives back the position (equal by
\* operator==), for every position reached from the starting position.
FenOfPositionParsesBack ==
    root = 1 => PositionEquals(initializeFromFEN(toFEN(pos)), pos)

\* C6: the position built from a canonical FEN string s emits exactly s; the
\* strings of the perft suite, the starting FEN and the Kiwipete FEN first.
CanonicalFenIsEmitted ==
    ~MoveMade => toFEN(pos) = testPositions[root]

\* C7: makeMove leaves every field of the position it is called on
\* unchanged.
MakeMoveLeavesReceiver == [][receiver' = pos]_vars

\* A move has been made that took the piece off its source square in the
\* result, while the position it was made on still has it there.
ReceiverKeptMovedPiece ==
    /\ MoveMade
    /\ lastMove.from \in getOccupiedBitboard(receiver)
    /\ lastMove.from \notin getOccupiedBitboard(pos)
    /\ receiver # pos

\* C8: every move made switches the side to move to the other color.
SideToMoveAlternates == [][pos'.sideToMove = Opp(pos.sideToMove)]_vars

\* Two moves have been made and the side that moved first is to move again.
SideToMoveCameBack ==
    /\ MoveMade
    /\ depth = (IF root = 1 THEN MaxDepth ELSE SuiteDepth) - 2
    /\ pos.sideToMove = initializeFromFEN(testPositions[root]).sideToMove
    /\ receiver.sideToMove # pos.sideToMove

\* C9: perft from the starting position counts 20 leaves at depth 1, 400 at
\* depth 2 and 8902 at depth 3.
PerftOfStartingPosition ==
    (root = 1 /\ ~MoveMade) =>
        /\ perft(pos, 1) = {20}
        /\ perft(pos, 2) = {400}
        /\ perft(pos, 3) = {8902}

PromotionChar(promotion) ==
    CASE promotion = PROMOTE_TO_QUEEN -> "q"
      [] promotion = PROMOTE_TO_ROOK -> "r"
      [] promotion = PROMOTE_TO_BISHOP -> "b"
      [] promotion = PROMOTE_TO_KNIGHT -> "n"

toUCI(m) ==
    IF isNull(m) THEN << "0", "0", "0", "0" >>
    ELSE squareToString(m.from) \o squareToString(m.to)
         \o (IF isPromotion(m) THEN << PromotionChar(m.promotion) >> ELSE << >>)

\* switch (std::tolower(uci[4])) of fromUCI: the promotion of a letter, or
\* NO_PROMOTION for the default branch, which returns NULL_MOVE.
NO_PROMOTION == 4
PromotionOfChar(ch) ==
    CASE tolower(ch) = "q" -> PROMOTE_TO_QUEEN
      [] tolower(ch) = "r" -> PROMOTE_TO_ROOK
      [] tolower(ch) = "b" -> PROMOTE_TO_BISHOP
      [] tolower(ch) = "n" -> PROMOTE_TO_KNIGHT
      [] OTHER -> NO_PROMOTION

fromUCI(uci) ==
    IF Len(uci) < 4 \/ Len(uci) > 5 THEN NULL_MOVE
    ELSE LET from == stringToSquare(SubSeq(uci, 1, 2))
             to == stringToSquare(SubSeq(uci, 3, 4))
         IN  IF from = NO_SQUARE \/ to = NO_SQUARE THEN NULL_MOVE
             ELSE IF Len(uci) = 5
                  THEN IF PromotionOfChar(uci[5]) = NO_PROMOTION THEN NULL_MOVE
                       ELSE Move(from, to, PROMOTION, PromotionOfChar(uci[5]))
             ELSE IF Abs(to - from) = 2 /\ (from = E1 \/ from = E8)
                  THEN Move(from, to, CASTLING, PROMOTE_TO_QUEEN)
             ELSE NormalMove(from, to)

\* The moves Move(from, to) and Move(from, to, PROMOTION, promotion) of every
\* pair of squares and every promotion piece.
NormalAndPromotionMoves ==
    { NormalMove(from, to) : from \in Squares, to \in Squares }
    \cup { Move(from, to, PROMOTION, promotion) :
             from \in Squares, to \in Squares,
             promotion \in { PROMOTE_TO_QUEEN, PROMOTE_TO_ROOK,
                             PROMOTE_TO_BISHOP, PROMOTE_TO_KNIGHT } }

\* A caller holds a move, asks for its UCI text, and parses the text back.
InitUci ==
    /\ root = 1
    /\ pos = initializeFromFEN(testPositions[root])
    /\ receiver = pos
    /\ lastMove = NULL_MOVE
    /\ depth = 0
    /\ \E m \in NormalAndPromotionMoves : io = [op |-> "Move", move |-> m]

ToUCI ==
    /\ io.op = "Move"
    /\ io' = [op |-> "toUCI", move |-> io.move, uci |-> toUCI(io.move)]
    /\ UNCHANGED <<root, pos, receiver, lastMove, depth>>

FromUCI ==
    /\ io.op = "toUCI"
    /\ io' = [op |-> "fromUCI", move |-> io.move, uci |-> io.uci,
              parsed |-> fromUCI(io.uci)]
    /\ UNCHANGED <<root, pos, receiver, lastMove, depth>>

NextUci == ToUCI \/ FromUCI

SpecUci == InitUci /\ [][NextUci]_vars

\* C11: parsing the UCI text of a normal or promotion move gives the move
\* back: fromUCI(toUCI(m)) = m.
UciRoundTrip == io.op = "fromUCI" => io.parsed = io.move
\* ------------------------------------------------------------------------
\* The analyzer on the positions of the suite: a caller descends as perft
\* does and, at a position it has reached, asks for the evaluation or for the
\* best move, searching as deep as the descent would still go.
\* ------------------------------------------------------------------------
\* Plies the analysis looks ahead from the starting position.
AnalysisDepth == 2

\* Plies the analysis looks ahead from each other position of the suite.
SuiteAnalysisDepth == 1

InitAnalyze ==
    /\ root \in DOMAIN analysisPositions
    /\ pos = initializeFromFEN(analysisPositions[root])
    /\ receiver = pos
    /\ lastMove = NULL_MOVE
    /\ depth = IF root = 1 THEN AnalysisDepth ELSE SuiteAnalysisDepth
    /\ io = NoCall

\* evaluatePosition on the position held and on the position that differs
\* from it in the side to move only.
Evaluate ==
    /\ io = NoCall
    /\ \E reads \in EvaluateReads(pos) :
         io' = [op |-> "evaluate",
                white |-> evaluate([pos EXCEPT !.sideToMove = WHITE], reads),
                black |-> evaluate([pos EXCEPT !.sideToMove = BLACK], reads)]
    /\ UNCHANGED <<root, pos, receiver, lastMove, depth>>

\* findBestMove(pos, depth) for a depth of at least 1.
FindBestMove ==
    /\ io = NoCall
    /\ depth >= 1
    /\ \E env \in SearchEnvs(pos, depth) :
         io' = [op |-> "findBestMove", env |-> env,
                result |-> findBestMove(pos, depth, env)]
    /\ UNCHANGED <<root, pos, receiver, lastMove, depth>>

NextAnalyze == MakeMove \/ Evaluate \/ FindBestMove

SpecAnalyze == InitAnalyze /\ [][NextAnalyze]_vars

\* C12: findBestMove with a depth of at least 1 returns the null move exactly
\* when generateLegalMoves is empty, and otherwise a move of that list.
BestMoveIsLegalMove ==
    io.op = "findBestMove" =>
        LET moves == generateLegalMoves(pos, io.env)
        IN  IF Len(moves) = 0 THEN io.result.move = NULL_MOVE
            ELSE io.result.move \in Range(moves)

\* The search returned the null move on a position without legal moves.
NoBestMoveInStalemate ==
    /\ io.op = "findBestMove"
    /\ io.result.move = NULL_MOVE
    /\ Len(generateLegalMoves(pos, io.env)) = 0

\* A best move was returned on a position that has legal moves.
BestMoveFound ==
    /\ io.op = "findBestMove"
    /\ io.result.move # NULL_MOVE
    /\ io.result.move \in Range(generateLegalMoves(pos, io.env))

\* C13: the score the search returns with its move is the greatest negamax
\* score of the legal moves of the root, and it is the negamax score of the
\* returned move.
BestMoveHasMaxNegamaxScore ==
    (io.op = "findBestMove" /\ io.result.move # NULL_MOVE) =>
        /\ io.result.score = negamax(pos, depth, io.env)
        /\ io.result.score =
              -negamax(makeMove(pos, io.result.move), depth - 1, io.env)

\* A search of two plies returned a move that is not the first of the sorted
\* list, with a score another legal move does not reach.
DeepSearchChoseLaterMove ==
    /\ io.op = "findBestMove"
    /\ depth >= 2
    /\ LET moves == sortCapturesFirst(generateLegalMoves(pos, io.env), pos,
                                      io.env.order)
       IN  /\ io.result.move # moves[1]
           /\ \E move \in Range(moves) :
                -negamax(makeMove(pos, move), depth - 1, io.env) < io.result.score

CASTLING_TEST_FEN ==
    << "r", "3", "k", "2", "r", "/", "p", "p", "p", "p", "p", "p",
       "p", "p", "/", "8", "/", "8", "/", "8", "/", "8", "/", "P",
       "P", "P", "P", "P", "P", "P", "P", "/", "R", "3", "K", "2",
       "R", " ", "w", " ", "K", "Q", "k", " ", "-", " ", "0", " ",
       "1" >>

\* Board fields that are no board: a letter that names no piece, an empty run
\* of nine squares, three ranks instead of eight.
MalformedBoards ==
    {
    << "r", "n", "b", "q", "k", "b", "n", "r", "/", "p", "p", "p",
       "p", "p", "p", "p", "p", "/", "8", "/", "8", "/", "8", "/",
       "8", "/", "P", "P", "P", "P", "P", "P", "P", "P", "/", "R",
       "N", "B", "Q", "K", "B", "N", "x" >>,
    << "r", "n", "b", "q", "k", "b", "n", "r", "/", "p", "p", "p",
       "p", "p", "p", "p", "p", "/", "9", "/", "8", "/", "8", "/",
       "8", "/", "P", "P", "P", "P", "P", "P", "P", "P", "/", "R",
       "N", "B", "Q", "K", "B", "N", "R" >>,
      << "8", "/", "8", "/", "8" >> }

FenBoards ==
    { Token(Tokens(STARTING_FEN), 1), Token(Tokens(CASTLING_TEST_FEN), 1) }
    \cup MalformedBoards

InvalidColors == { << "x" >> }
FenColors == { << "w" >>, << "b" >> } \cup InvalidColors

InvalidCastlings == { << "K", "Q", "x", "q" >> }
FenCastlings ==
    { << "K", "Q", "k", "q" >>, << "K", "Q", "k" >>, << "-" >> }
    \cup InvalidCastlings

InvalidEnPassants == { << "z", "9" >>, << "e", "9" >> }
FenEnPassants == { << "-" >>, << "e", "3" >> } \cup InvalidEnPassants

\* The text of the six fields, with clocks "0 1".
FenOf(f) ==
    f.board \o << " " >> \o f.color \o << " " >> \o f.castling \o << " " >>
    \o f.enPassant \o << " ", "0", " ", "1" >>

\* Some field of f is outside the FEN format.
Malformed(f) ==
    \/ f.board \in MalformedBoards
    \/ f.color \in InvalidColors
    \/ f.castling \in InvalidCastlings
    \/ f.enPassant \in InvalidEnPassants

\* p is a position: the value a constructor that returned has built.
IsPosition(p) ==
    DOMAIN p = { "pieceBitboards", "sideToMove", "castlingRights",
                 "enPassantSquare", "halfmoveClock", "fullmoveNumber",
                 "zobristHash" }

InitFen ==
    /\ root = 1
    /\ pos = initializeFromFEN(testPositions[root])
    /\ receiver = pos
    /\ lastMove = NULL_MOVE
    /\ depth = 0
    /\ \E board \in FenBoards, color \in FenColors,
          castling \in FenCastlings, enPassant \in FenEnPassants :
         io = [op |-> "fen", board |-> board, color |-> color,
               castling |-> castling, enPassant |-> enPassant]

\* Position(fen): initializeFromFEN has no return value and no throw.
FromFEN ==
    /\ io.op = "fen"
    /\ io' = [op |-> "initializeFromFEN", board |-> io.board,
              color |-> io.color, castling |-> io.castling,
              enPassant |-> io.enPassant,
              position |-> initializeFromFEN(FenOf(io))]
    /\ UNCHANGED <<root, pos, receiver, lastMove, depth>>

NextFen == FromFEN

SpecFen == InitFen /\ [][NextFen]_vars

\* C15: the construction from a malformed FEN fails: it produces no position.
MalformedFenIsRejected ==
    (io.op = "initializeFromFEN" /\ Malformed(io)) => ~IsPosition(io.position)

SanDepth == 1

\* The SAN texts handed to parseAlgebraicMove.
SanTexts ==
    { << "e", "4" >>,
      << "N", "f", "3" >>,
      << "N", "h", "f", "3" >>,
      << "B", "x", "a", "6" >>,
      << "K", "f", "1" >>,
      << "R", "b", "1" >>,
      << "O", "-", "O" >>,
      << "O", "-", "O", "-", "O" >>,
      << "0", "-", "0" >>,
      << "d", "x", "c", "8", "=", "Q" >>,
      << "d", "x", "c", "8", "=", "N", "+" >>,
      << "e", "5" >>,
      << "B", "e", "5" >>,
      << "z", "z" >>,
      << "e" >>,
      << >> }

\* The words of the move texts handed to parseGame, one on a line.
PgnWords ==
    { << "1", "." >>,
      << "1", ".", "e", "4" >>,
      << "e", "4" >>,
      << "N", "f", "3" >>,
      << "e", "5" >>,
      << "0", "-", "0" >>,
      << "z", "z" >>,
      << "{", "c", "}" >>,
      << "1", "-", "0" >> }

\* The most words of a move text.
MaxWords == 2

PgnLines == UNION { [1..n -> PgnWords] : n \in 1..MaxWords }

InitPgn ==
    /\ root \in DOMAIN testPositions
    /\ pos = initializeFromFEN(testPositions[root])
    /\ receiver = pos
    /\ lastMove = NULL_MOVE
    /\ depth = SanDepth
    /\ io = NoCall

\* move = parser.parseAlgebraicMove(pos, moveStr)
ParseAlgebraicMove ==
    /\ io = NoCall
    /\ \E moveStr \in SanTexts :
         \E ub \in UndefinedReads(pos) :
            io' = [op |-> "parseAlgebraicMove", moveStr |-> moveStr, ub |-> ub,
                   move |-> parseAlgebraicMoveImpl(pos, moveStr, ub)]
    /\ UNCHANGED <<root, pos, receiver, lastMove, depth>>

\* game = parser.parseGame(pgn); error = parser.getLastError(), for a text
\* with the position of the suite in its FEN header (no header for the
\* starting position).
ParseGame ==
    /\ io = NoCall
    /\ lastMove = NULL_MOVE
    /\ \E lines \in PgnLines :
         \E game \in parseGameImpl(IF root = 1 THEN <<>> ELSE testPositions[root],
                                   lines) :
            io' = [op |-> "parseGame", fen |-> game.initialFEN, lines |-> lines,
                   moves |-> game.moves, lastError |-> game.lastError]
    /\ UNCHANGED <<root, pos, receiver, lastMove, depth>>

NextPgn == MakeMove \/ ParseAlgebraicMove \/ ParseGame

SpecPgn == InitPgn /\ [][NextPgn]_vars

\* C16: a SAN text that parseAlgebraicMove resolves is resolved to a move of
\* generateLegalMoves of the position, and "O-O" and "O-O-O" give the null
\* move when the list holds no such castling move.
SanResultIsLegalMove ==
    io.op = "parseAlgebraicMove" =>
        LET legal == Range(generateLegalMoves(pos, io.ub))
        IN  /\ ~isNull(io.move) => io.move \in legal
            /\ (io.moveStr \in {SAN_OO, SAN_OOO, SAN_00, SAN_000}
                /\ ~\E m \in legal : isCastling(m)) => isNull(io.move)

\* The tokens of a move text that are SAN moves: every token but the move
\* numbers (they end with '.') and the four result tokens.
IsSanToken(token) ==
    /\ token[Len(token)] # "."
    /\ token \notin {RESULT_WHITE, RESULT_BLACK, RESULT_DRAW, RESULT_OPEN}

SanTokensOf(lines) ==
    SelectSeq(tokenize(removeCommentsAndVariations(JoinLines(lines))), IsSanToken)

\* The position after the moves of a game are made from its first one.
RECURSIVE PositionAfter(_, _)
PositionAfter(p, moves) ==
    IF moves = <<>> THEN p ELSE PositionAfter(makeMove(p, Head(moves)), Tail(moves))

\* text holds part as a run of its characters.
Contains(text, part) ==
    \E i \in 1..(Len(text) - Len(part) + 1) :
        SubSeq(text, i, i + Len(part) - 1) = part

\* C17: parseGame keeps the moves of the SAN tokens before the first one that
\* does not resolve against the running position, n of them; when there is
\* such a token lastError is not empty and holds it, and when every SAN
\* token resolves lastError is empty.
PgnParseIsBestEffort ==
    io.op = "parseGame" =>
        LET tokens == SanTokensOf(io.lines)
            n == Len(io.moves)
            first == initializeFromFEN(IF io.fen = <<>> THEN STARTING_FEN
                                       ELSE io.fen)
            Before(i) == PositionAfter(first, SubSeq(io.moves, 1, i - 1))
        IN  /\ n <= Len(tokens)
            /\ \A i \in 1..n :
                 /\ ~isNull(io.moves[i])
                 /\ io.moves[i] \in parseAlgebraicMove(Before(i), tokens[i])
            /\ IF n = Len(tokens) THEN io.lastError = <<>>
               ELSE /\ NULL_MOVE \in parseAlgebraicMove(Before(n + 1), tokens[n + 1])
                    /\ io.lastError # <<>>
                    /\ Contains(io.lastError, tokens[n + 1])

\* ------------------------------------------------------------------------
\* position_moves.cpp : the castling rights and the halfmove clock of the
\* positions the descent reaches.
\* ------------------------------------------------------------------------
\* The king of a color stands on e1 / e8 and its rook on rookHome.
OnHomeSquares(p, color, kingHome, rookHome) ==
    /\ kingHome \in getPieceBitboard(p, KING, color)
    /\ rookHome \in getPieceBitboard(p, ROOK, color)

\* C19: in every position reached from the starting position, a castling
\* right is held only while the king of that color is on its home square and
\* the rook of that side is on its home square.  (Stated for the positions
\* whose side to move has a king: the legality test of the move that led
\* there read no king square of an empty board.)
CastlingRightsNeedHomeSquares ==
    (root = 1 /\ getPieceBitboard(pos, KING, pos.sideToMove) # {}) =>
        /\ WHITE_OO \in pos.castlingRights => OnHomeSquares(pos, WHITE, E1, H1)
        /\ WHITE_OOO \in pos.castlingRights => OnHomeSquares(pos, WHITE, E1, A1)
        /\ BLACK_OO \in pos.castlingRights => OnHomeSquares(pos, BLACK, E8, H8)
        /\ BLACK_OOO \in pos.castlingRights => OnHomeSquares(pos, BLACK, E8, A8)

\* The last move took a piece, or moved a pawn of either color (a promotion
\* and an en-passant capture are pawn moves).
ResetsHalfmoveClock ==
    \/ getPieceAt(receiver, lastMove.to) # NO_PIECE
    \/ isEnPassant(lastMove)
    \/ isPromotion(lastMove)
    \/ \E color \in Colors : lastMove.from \in getPieceBitboard(receiver, PAWN, color)

\* C20: after makeMove the halfmove clock is 0 when the move was a capture,
\* an en-passant capture, a promotion or a pawn move, and one more than the
\* clock of the position moved from otherwise.
HalfmoveClockResetsOrCounts ==
    MoveMade =>
        pos.halfmoveClock = IF ResetsHalfmoveClock THEN 0
                            ELSE receiver.halfmoveClock + 1

\* The last move moved a pawn of either color two ranks.
DoublePawnPush ==
    /\ \E color \in Colors : lastMove.from \in getPieceBitboard(receiver, PAWN, color)
    /\ Abs(lastMove.to - lastMove.from) = 16

\* C21: after makeMove the en-passant square is the square the pawn skipped
\* when the move was a double pawn push, and NO_SQUARE after any other move.
EnPassantSquareIffDoublePush ==
    MoveMade =>
        pos.enPassantSquare = IF DoublePawnPush
                              THEN (lastMove.from + lastMove.to) \div 2
                              ELSE NO_SQUARE

\* The squares of pos other than those of the last move hold what they held
\* in the position moved from.
OtherSquaresKept ==
    \A sq \in Squares \ {lastMove.from, lastMove.to} :
        getPieceAt(pos, sq) = getPieceAt(receiver, sq)

\* C22: after a promotion move (the move fromUCI gives for its UCI text) the
\* source square is empty, the target square holds the piece its fifth letter
\* names (q, r, b or n) in the mover's color and nothing else (a piece taken there is gone), no other
\* square has changed, and the halfmove clock is 0.
PromotionPlacesPromotedPiece ==
    (MoveMade /\ isPromotion(lastMove)) =>
        LET uci == toUCI(lastMove)
            placed == makePiece(receiver.sideToMove, PieceTypeOfChar(uci[5]))
        IN  /\ fromUCI(uci) = lastMove
            /\ getPieceAt(pos, lastMove.from) = NO_PIECE
            /\ getPieceAt(pos, lastMove.to) = placed
            /\ \A c \in Colors, pt \in PieceTypes :
                 lastMove.to \in getPieceBitboard(pos, pt, c) =>
                     makePiece(c, pt) = placed
            /\ OtherSquaresKept
            /\ pos.halfmoveClock = 0

\* A black pawn has promoted to a knight on an empty square.
QuietUnderpromotionMade ==
    /\ MoveMade /\ isPromotion(lastMove)
    /\ receiver.sideToMove = BLACK
    /\ lastMove.promotion = PROMOTE_TO_KNIGHT
    /\ getPieceAt(receiver, lastMove.to) = NO_PIECE

\* ------------------------------------------------------------------------
\* move_generator.cpp : generateCastlingMoves along a game in which Black
\* clears f8 and g8 and then moves the king off e8.
\* ------------------------------------------------------------------------
\* a2a3 g8f6 a3a4 e7e6 a4a5 f8d6 h2h3 e8e7 h3h4
CastleLine ==
    << NormalMove(8, 16), NormalMove(62, 45), NormalMove(16, 24),
       NormalMove(52, 44), NormalMove(24, 32), NormalMove(61, 43),
       NormalMove(15, 23), NormalMove(60, 52), NormalMove(23, 31) >>

\* depth counts the moves of the line still to play, plus one for the move
\* that leaves it.
InitCastle ==
    /\ root = 1
    /\ pos = initializeFromFEN(testPositions[root])
    /\ receiver = pos
    /\ lastMove = NULL_MOVE
    /\ depth = Len(CastleLine) + 1
    /\ io = NoCall

\* The next move of the line, if generateLegalMoves lists it.
PlayLine ==
    /\ depth > 1
    /\ \E ub \in UndefinedReads(pos) :
         \E move \in Range(generateLegalMoves(pos, ub)) :
            /\ move = CastleLine[Len(CastleLine) - depth + 2]
            /\ pos' = makeMove(pos, move)
            /\ receiver' = makeMoveReceiver(pos, move)
            /\ lastMove' = move
            /\ depth' = depth - 1
    /\ UNCHANGED <<root, io>>

\* Any move of generateLegalMoves, after which the game is not followed.
LeaveLine ==
    /\ depth > 0
    /\ \E ub \in UndefinedReads(pos) :
         \E move \in Range(generateLegalMoves(pos, ub)) :
            /\ pos' = makeMove(pos, move)
            /\ receiver' = makeMoveReceiver(pos, move)
            /\ lastMove' = move
            /\ depth' = 0
    /\ UNCHANGED <<root, io>>

NextCastle == PlayLine \/ LeaveLine

SpecCastle == InitCastle /\ [][NextCastle]_vars

\* The squares between the king's and the rook's home squares, and the
\* squares the king crosses and lands on, for a castling move to square to.
CastlingEmptySquares(to) ==
    CASE to = G1 -> {F1, G1}
      [] to = C1 -> {B1, C1, D1}
      [] to = G8 -> {F8, G8}
      [] to = C8 -> {B8, C8, D8}
      [] OTHER   -> {}

CastlingKingPath(to) ==
    CASE to = G1 -> {F1, G1}
      [] to = C1 -> {C1, D1}
      [] to = G8 -> {F8, G8}
      [] to = C8 -> {C8, D8}
      [] OTHER   -> {}

CastlingRightOf(to) ==
    CASE to = G1 -> WHITE_OO
      [] to = C1 -> WHITE_OOO
      [] to = G8 -> BLACK_OO
      [] to = C8 -> BLACK_OOO
      [] OTHER   -> NO_CASTLING

\* C23: a castling move of the generator starts on the home square of the
\* mover's king, which holds that king; the king is not attacked, the right
\* of that side is set, the squares between king and rook are empty, and the
\* squares the king crosses and lands on are not attacked by the opponent.
CastlingMoveWasAllowed ==
    (MoveMade /\ isCastling(lastMove)) =>
        LET us == receiver.sideToMove
            home == IF us = WHITE THEN E1 ELSE E8
            to == lastMove.to
        IN  /\ lastMove.from = home
            /\ to \in (IF us = WHITE THEN {G1, C1} ELSE {G8, C8})
            /\ home \in getPieceBitboard(receiver, KING, us)
            /\ ~isSquareAttacked(receiver, home, Opp(us))
            /\ CastlingRightOf(to) \in receiver.castlingRights
            /\ CastlingEmptySquares(to) \cap getOccupiedBitboard(receiver) = {}
            /\ \A sq \in CastlingKingPath(to) :
                 ~isSquareAttacked(receiver, sq, Opp(us))

\* ------------------------------------------------------------------------
\* chess_analyzer.cpp : the order in which search visits the moves of a node,
\* for the positions of the suite and one ply below them as nodes.
\* ------------------------------------------------------------------------
\* Plies descended from a position of the suite to the node that is sorted.
OrderDepth == 1

InitOrder ==
    /\ root \in DOMAIN testPositions
    /\ pos = initializeFromFEN(testPositions[root])
    /\ receiver = pos
    /\ lastMove = NULL_MOVE
    /\ depth = OrderDepth
    /\ io = NoCall

\* moves = moveGen.generateLegalMoves(pos); std::sort(moves...): the list
\* the loop of search then walks.
SortMoves ==
    /\ io = NoCall
    /\ \E ub \in UndefinedReads(pos), order \in SortOrders :
         LET moves == generateLegalMoves(pos, ub)
         IN  io' = [op |-> "sortMoves", order |-> order, moves |-> moves,
                    visited |-> sortCapturesFirst(moves, pos, order)]
    /\ UNCHANGED <<root, pos, receiver, lastMove, depth>>

NextOrder == MakeMove \/ SortMoves

SpecOrder == InitOrder /\ [][NextOrder]_vars

\* A capture: the target square is occupied, or the move takes en passant.
TakesPiece(move) == getPieceAt(pos, move.to) # NO_PIECE \/ isEnPassant(move)

TakesNoPiece(move) == ~TakesPiece(move)

\* C24: the moves of a node are visited captures first, and the captures as
\* well as the other moves in the order in which the generator listed them.
CapturesFirstInGeneratedOrder ==
    io.op = "sortMoves" =>
        /\ \A i, j \in DOMAIN io.visited :
             (TakesPiece(io.visited[j]) /\ TakesNoPiece(io.visited[i])) => j < i
        /\ SelectSeq(io.visited, TakesPiece) = SelectSeq(io.moves, TakesPiece)
        /\ SelectSeq(io.visited, TakesNoPiece) = SelectSeq(io.moves, TakesNoPiece)

\* Captures come first when the sort keeps equal moves in place.
StableOrderPutsCapturesFirst ==
    (io.op = "sortMoves" /\ io.order = "stable") =>
        \A i, j \in DOMAIN io.visited :
            (TakesPiece(io.visited[j]) /\ TakesNoPiece(io.visited[i])) => j < i

\* ------------------------------------------------------------------------
\* move.cpp, pgn_parser.cpp : toAlgebraic, parseAlgebraicMove and gameToPGN
\* along a game from the starting position.
\* ------------------------------------------------------------------------
\* h2h3 c7c6 h3h4 d7d5 g2g3 c8d7
SanGame ==
    << NormalMove(15, 23), NormalMove(50, 42), NormalMove(23, 31),
       NormalMove(51, 35), NormalMove(14, 22), NormalMove(58, 51) >>

\* The moves of the game made so far; depth counts those still to make.
MovesMade == SubSeq(SanGame, 1, Len(SanGame) - depth)

InitSan ==
    /\ root = 1
    /\ pos = initializeFromFEN(testPositions[root])
    /\ receiver = pos
    /\ lastMove = NULL_MOVE
    /\ depth = Len(SanGame)
    /\ io = NoCall

\* The next move of the game, if generateLegalMoves lists it.
FollowGame ==
    /\ depth > 0
    /\ io = NoCall
    /\ \E ub \in UndefinedReads(pos) :
         \E move \in Range(generateLegalMoves(pos, ub)) :
            /\ move = SanGame[Len(SanGame) - depth + 1]
            /\ pos' = makeMove(pos, move)
            /\ receiver' = makeMoveReceiver(pos, move)
            /\ lastMove' = move
            /\ depth' = depth - 1
    /\ UNCHANGED <<root, io>>

\* san = parser.moveToAlgebraic(pos, move) for a move of generateLegalMoves,
\* then parser.parseAlgebraicMove(pos, san).
ToAlgebraic ==
    /\ io = NoCall
    /\ \E ub \in UndefinedReads(pos) :
         LET moves == generateLegalMoves(pos, ub) IN
         \E move \in Range(moves) :
            \E san \in moveToAlgebraic(pos, move) :
               io' = [op |-> "toAlgebraic", move |-> move, moves |-> moves,
                      san |-> san,
                      parsed |-> parseAlgebraicMoveImpl(pos, san, ub)]
    /\ UNCHANGED <<root, pos, receiver, lastMove, depth>>

\* text = parser.gameToPGN(game) for the game made so far (no headers, no
\* result), then parser.parseGame(text).
GameToPGN ==
    /\ io = NoCall
    /\ LET game == [headers |-> << >>, moves |-> MovesMade,
                    initialFEN |-> << >>, result |-> << >>]
       IN  \E text \in gameToPGN(game) :
             \E parsed \in parseGameImpl(<< >>, GetLines(text)) :
                io' = [op |-> "gameToPGN", moves |-> game.moves, text |-> text,
                       parsed |-> parsed.moves, lastError |-> parsed.lastError]
    /\ UNCHANGED <<root, pos, receiver, lastMove, depth>>

NextSan == FollowGame \/ ToAlgebraic \/ GameToPGN

SpecSan == InitSan /\ [][NextSan]_vars

\* The type of the board of the side to move that holds a square.
BoardTypeAt(sq) ==
    CHOOSE pt \in PieceTypes : sq \in getPieceBitboard(pos, pt, pos.sideToMove)

\* The source squares of the other moves of the list that bring a piece of
\* the same type to the same square as move.
Rivals(moves, move) ==
    { m.from : m \in { r \in Range(moves) :
                         /\ r.to = move.to
                         /\ r.from # move.from
                         /\ BoardTypeAt(r.from) = BoardTypeAt(move.from) } }

\* The prefix C25 asks for: none without a rival, the file of the source
\* square if no rival is on it, else the rank if no rival is on it, else both.
MinimalPrefix(moves, move) ==
    LET rivals == Rivals(moves, move)
        file == << LowerChars[fileOf(move.from) + 1] >>
        rank == << DigitChars[rankOf(move.from) + 2] >>
    IN  IF rivals = {} THEN << >>
        ELSE IF \A sq \in rivals : fileOf(sq) # fileOf(move.from) THEN file
        ELSE IF \A sq \in rivals : rankOf(sq) # rankOf(move.from) THEN rank
        ELSE file \o rank

\* What a SAN text holds between its piece letter and its target square,
\* the capture mark left out.
PrefixOf(san) ==
    LET NotMark(ch) == ch \notin {"x", "+", "#"}
        body == SelectSeq(san, NotMark)
        cut == IF Len(body) >= 2 /\ body[Len(body) - 1] = "="
               THEN SubSeq(body, 1, Len(body) - 2) ELSE body
    IN  SubSeq(cut, 2, Len(cut) - 2)

\* C25: the SAN text of a move of a piece other than a pawn (castling
\* aside) carries the minimal prefix: none when no other piece of that type
\* and color can legally move to the same square.
SanPrefixIsMinimal ==
    (io.op = "toAlgebraic" /\ ~isCastling(io.move)
       /\ BoardTypeAt(io.move.from) # PAWN) =>
        PrefixOf(io.san) = MinimalPrefix(io.moves, io.move)

\* C30: parseAlgebraicMove gives back the move whose SAN text toAlgebraic
\* wrote for the same position, and parseGame gives back the moves of the game
\* whose text gameToPGN wrote.
SanRoundTrip ==
    /\ io.op = "toAlgebraic" => io.parsed = io.move
    /\ io.op = "gameToPGN" => io.parsed = io.moves

\* ------------------------------------------------------------------------
\* evaluator.cpp : isEndgame and evaluatePawnStructure on boards put together
\* from ranks.
\* ------------------------------------------------------------------------
\* Eighth ranks, first ranks and pawn ranks of the boards evaluated.
BlackBackRanks ==
    { << "4", "k", "3" >>, << "r", "3", "k", "3" >>,
      << "r", "3", "k", "2", "r" >>, << "r", "n", "b", "1", "k", "3" >>,
      << "r", "n", "b", "q", "k", "b", "n", "r" >> }

WhiteBackRanks ==
    { << "4", "K", "3" >>, << "R", "3", "K", "3" >>,
      << "R", "3", "K", "2", "R" >>, << "R", "N", "B", "1", "K", "3" >>,
      << "R", "N", "B", "Q", "K", "B", "N", "R" >> }

BlackPawnRanks ==
    { << "8" >>, << "p", "7" >>, << "p", "p", "6" >>, << "p", "1", "p", "5" >>,
      << "p", "p", "p", "p", "p", "p", "p", "p" >> }

WhitePawnRanks ==
    { << "8" >>, << "P", "7" >>, << "P", "P", "6" >>, << "P", "1", "P", "5" >>,
      << "P", "P", "P", "P", "P", "P", "P", "P" >> }

BlackAdvancedRanks == { << "8" >>, << "p", "7" >> }
WhiteAdvancedRanks == { << "8" >>, << "P", "7" >> }

\* The FEN string of the board with these ranks, White to move.
EvalFen(r8, r7, r6, r3, r2, r1) ==
    r8 \o << "/" >> \o r7 \o << "/" >> \o r6 \o << "/", "8", "/", "8", "/" >>
    \o r3 \o << "/" >> \o r2 \o << "/" >> \o r1
    \o << " ", "w", " ", "-", " ", "-", " ", "0", " ", "1" >>

\* Position pos(fen) for a board put together from the ranks.
InitEval ==
    /\ root = 1
    /\ \E r8 \in BlackBackRanks, r7 \in BlackPawnRanks,
          r6 \in BlackAdvancedRanks, r3 \in WhiteAdvancedRanks,
          r2 \in WhitePawnRanks, r1 \in WhiteBackRanks :
         pos = initializeFromFEN(EvalFen(r8, r7, r6, r3, r2, r1))
    /\ receiver = pos
    /\ lastMove = NULL_MOVE
    /\ depth = 0
    /\ io = NoCall

\* bool endgame = isEndgame(pos), the first step of getPieceSquareScore.
IsEndgame ==
    /\ io = NoCall
    /\ io' = [op |-> "isEndgame", result |-> isEndgame(pos)]
    /\ UNCHANGED <<root, pos, receiver, lastMove, depth>>

\* score += evaluatePawnStructure(pos)
EvaluatePawnStructure ==
    /\ io = NoCall
    /\ io' = [op |-> "evaluatePawnStructure",
              result |-> evaluatePawnStructure(pos)]
    /\ UNCHANGED <<root, pos, receiver, lastMove, depth>>

NextEval == IsEndgame \/ EvaluatePawnStructure

SpecEval == InitEval /\ [][NextEval]_vars

\* PieceValue summed over the knights, bishops, rooks and queens of both
\* colors.
NonPawnMaterial ==
    LET count(pt) == popcount(getPieceBitboard(pos, pt, WHITE))
                     + popcount(getPieceBitboard(pos, pt, BLACK))
    IN  count(KNIGHT) * PieceValue[KNIGHT] + count(BISHOP) * PieceValue[BISHOP]
        + count(ROOK) * PieceValue[ROOK] + count(QUEEN) * PieceValue[QUEEN]

\* C26: isEndgame is true exactly when the value of the knights, bishops,
\* rooks and queens of both colors is below 2000.
EndgameIffNonPawnMaterialBelow2000 ==
    io.op = "isEndgame" => (io.result <=> NonPawnMaterial < 2000)

\* The pawns of pawns that have no pawn of pawns on an adjacent file.
IsolatedPawnsOf(pawns) ==
    { sq \in pawns :
        \A other \in pawns : fileOf(other) \notin { fileOf(sq) - 1, fileOf(sq) + 1 } }

\* C27: the pawn-structure term charges 15 for each pawn without a friendly
\* pawn on an adjacent file, on top of the doubled-pawn penalty and the
\* passed-pawn bonus.
IsolatedPenaltyIsPerPawn ==
    io.op = "evaluatePawnStructure" =>
        LET whitePawns == getPieceBitboard(pos, PAWN, WHITE)
            blackPawns == getPieceBitboard(pos, PAWN, BLACK)
        IN  io.result =
                DoubledPawns(whitePawns, blackPawns, 0)
                - 15 * popcount(IsolatedPawnsOf(whitePawns))
                + 15 * popcount(IsolatedPawnsOf(blackPawns))
                + PassedPawnBonus(getPassedPawns(whitePawns, blackPawns, WHITE), WHITE)
                - PassedPawnBonus(getPassedPawns(blackPawns, whitePawns, BLACK), BLACK)

\* C29: typeOf and colorOf give back the type and the color makePiece was
\* called with, for both colors and the six piece types, so the piece
\* getPieceAt returns for an occupied square has the type and the color of the
\* bitboard that holds the square.
PieceEncodingRoundTrips ==
    /\ \A c \in Colors, pt \in PieceTypes :
         /\ typeOf(makePiece(c, pt)) = pt
         /\ colorOf(makePiece(c, pt)) = c
    /\ \A sq \in getOccupiedBitboard(pos) :
         LET piece == getPieceAt(pos, sq)
         IN  /\ typeOf(piece) \in PieceTypes
             /\ sq \in getPieceBitboard(pos, typeOf(piece), colorOf(piece))

\* ------------------------------------------------------------------------
\* position_moves.cpp : Position::isSquareAttacked on the positions of the
\* suite and the positions one move after them.
\* ------------------------------------------------------------------------
AttackDepth == 1

InitAttack ==
    /\ root \in DOMAIN testPositions
    /\ pos = initializeFromFEN(testPositions[root])
    /\ receiver = pos
    /\ lastMove = NULL_MOVE
    /\ depth = AttackDepth
    /\ io = NoCall

\* pos.isSquareAttacked(square, byColor)
IsSquareAttacked ==
    /\ io = NoCall
    /\ \E square \in Squares, byColor \in Colors :
         io' = [op |-> "isSquareAttacked", square |-> square,
                byColor |-> byColor,
                result |-> isSquareAttacked(pos, square, byColor)]
    /\ UNCHANGED <<root, pos, receiver, lastMove, depth>>

NextAttack == MakeMove \/ IsSquareAttacked

SpecAttack == InitAttack /\ [][NextAttack]_vars

\* The squares strictly between two squares of one rank, file or diagonal.
Between(a, b) ==
    { s \in Squares \ {a, b} :
        /\ Abs(rankOf(a) - rankOf(s)) + Abs(rankOf(s) - rankOf(b))
             = Abs(rankOf(a) - rankOf(b))
        /\ Abs(fileOf(a) - fileOf(s)) + Abs(fileOf(s) - fileOf(b))
             = Abs(fileOf(a) - fileOf(b))
        /\ (rankOf(s) - rankOf(a)) * (fileOf(b) - fileOf(a))
             = (fileOf(s) - fileOf(a)) * (rankOf(b) - rankOf(a)) }

OnDiagonal(a, b) ==
    a # b /\ Abs(rankOf(a) - rankOf(b)) = Abs(fileOf(a) - fileOf(b))

OnLine(a, b) == a # b /\ (rankOf(a) = rankOf(b) \/ fileOf(a) = fileOf(b))

NothingBetween(a, b) == Between(a, b) \cap getOccupiedBitboard(pos) = {}

\* The piece of color by and type pt standing on from attacks sq.
AttacksFrom(from, pt, by, sq) ==
    LET dr == rankOf(sq) - rankOf(from)
        df == fileOf(sq) - fileOf(from)
    IN  CASE pt = PAWN   -> dr = (IF by = WHITE THEN 1 ELSE -1) /\ Abs(df) = 1
          [] pt = KNIGHT -> {Abs(dr), Abs(df)} = {1, 2}
          [] pt = BISHOP -> OnDiagonal(from, sq) /\ NothingBetween(from, sq)
          [] pt = ROOK   -> OnLine(from, sq) /\ NothingBetween(from, sq)
          [] pt = QUEEN  -> (OnDiagonal(from, sq) \/ OnLine(from, sq))
                            /\ NothingBetween(from, sq)
          [] pt = KING   -> from # sq /\ Abs(dr) <= 1 /\ Abs(df) <= 1

\* The squares from which a piece of color by attacks sq.
Attackers(sq, by) ==
    { from \in Squares :
        \E pt \in PieceTypes :
            from \in getPieceBitboard(pos, pt, by) /\ AttacksFrom(from, pt, by, sq) }

\* C28: isSquareAttacked(square, byColor) is true exactly when a piece of
\* byColor attacks the square: a pawn one rank behind it on a neighbouring
\* file, a knight a jump away, a bishop, rook or queen on its line with no
\* piece strictly between, or a king next to it.
AttackedIffSomePieceAttacks ==
    io.op = "isSquareAttacked" =>
        (io.result <=> Attackers(io.square, io.byColor) # {})

\* A square of the a or h file was found not attacked while a pawn of byColor
\* stands where a shift around the edge of the board would find it.
EdgeSquareNotAttackedByWrappedPawn ==
    /\ io.op = "isSquareAttacked"
    /\ ~io.result
    /\ fileOf(io.square) \in {0, 7}
    /\ \E d \in {7, 9} :
         io.square + (IF io.byColor = WHITE THEN -d ELSE d)
             \in getPieceBitboard(pos, PAWN, io.byColor)

====
